---- MODULE Spec2Model ----
(***************************************************************************)
(* Model of the real-time session coordination layer of the Ko-Desain      *)
(* backend: the websocket ConnectionManager and SessionWebSocketHandler    *)
(* (api/websocket/handler.py), the Redis presence helpers                  *)
(* (core/redis_client.py) and the phase endpoints (api/v1/sessions.py).    *)
(*                                                                         *)
(* Granularity.  In Spec and SpecPhase one action is one call running to   *)
(* its end (connect, one handled event, disconnect, one HTTP request):     *)
(* the behaviour of the code when no other coroutine or request is         *)
(* scheduled inside the call.  An exception that leaves handle_message     *)
(* runs the except branch of websocket_endpoint in the same step.  The     *)
(* variable last records the call the step ran and wire the send_text      *)
(* calls it made, in order.                                                *)
(***************************************************************************)
EXTENDS Integers, Sequences, FiniteSets, TLC

\* ------------------------------------------------------------------ bounds
MaxConn == 2          \* websockets whose coroutine is running at one time
MaxTime == 1          \* ticks of the server clock

Sessions == {"s1", "s2"}
Users == {"u1", "u2"}
ChanIds == 1..MaxConn
None == "None"
Null == <<>>                       \* a nullable column holding NULL
Some(x) == <<x>>                   \* a nullable column holding x

\* The claims of a verified token (core/security.py create_access_token).
user_name(u) == IF u = "u1" THEN "Ana" ELSE "Budi"
user_role(u) == IF u = "u1" THEN "designer" ELSE "vi_user"
Tokens == [sig : {"ok"}, sub : Users] \cup {[sig |-> "bad", sub |-> None]}

VARIABLES
    active_connections,   \* session_id -> (user_id -> channel)
    session_participants, \* session_id -> set of user_id
    chan,                 \* the websockets whose coroutine is running, by id
    redis_participants,   \* Redis set session:{id}:participants
    presence,             \* Redis hash session:{id}:presence:{user}
    typing,               \* Redis set session:{id}:typing
    now,                  \* datetime.utcnow()
    wire,                 \* send_text calls of the last step, in order
    last,                 \* the call the last step ran and its outcome
    codesign_sessions,    \* table codesign_sessions, by id
    db_participants,      \* table session_participants
    phase_transitions,    \* table phase_transitions, rows by session in time order
    requests              \* HTTP requests suspended between two awaits

wsVars == <<active_connections, session_participants, chan, redis_participants,
            presence, typing>>
dbVars == <<codesign_sessions, db_participants, phase_transitions, requests>>
vars == <<active_connections, session_participants, chan, redis_participants,
          presence, typing, now, wire, last,
          codesign_sessions, db_participants, phase_transitions, requests>>

\* ----------------------------------------------------------- dict helpers
DictSet(d, k, v) == [x \in DOMAIN d \cup {k} |-> IF x = k THEN v ELSE d[x]]
DictPop(d, k) == [x \in DOMAIN d \ {k} |-> d[x]]
EmptyDict == [x \in {} |-> None]

RECURSIVE SetToSeq(_)
SetToSeq(S) ==
    IF S = {} THEN <<>>
    ELSE LET x == CHOOSE y \in S : TRUE IN <<x>> \o SetToSeq(S \ {x})

NoCall == [op |-> "init", session_id |-> None, user_id |-> None, chan |-> 0,
           status |-> 0, detail |-> None, routed |-> <<>>, closed |-> {},
           logged |-> <<>>]

\* ------------------------------------------------------ ConnectionManager
\* send_text on channel c: raises (and is caught by the caller) unless the
\* websocket is still served and its client has not closed it.
SendOk(cs, c) ==
    c \in DOMAIN cs /\ ("open" \in DOMAIN cs[c] => cs[c].open)

RECURSIVE SendEachAll(_, _, _, _, _)
\* Mutant of SendEach: the exclude_user test is lost.
SendEachAll(cs, conns, users, message, exclude_user) ==
    IF users = <<>> THEN <<>>
    ELSE <<[ch |-> conns[Head(users)], msg |-> message,
            ok |-> SendOk(cs, conns[Head(users)])]>>
         \o SendEachAll(cs, conns, Tail(users), message, exclude_user)

RECURSIVE SendEach(_, _, _, _, _)
\* The loop of broadcast_to_session over the items of one session's dict.
SendEach(cs, conns, users, message, exclude_user) ==
    IF users = <<>> THEN <<>>
    ELSE LET user_id == Head(users)
             websocket == conns[user_id]
         IN (IF user_id # exclude_user
             THEN <<[ch |-> websocket, msg |-> message, ok |-> SendOk(cs, websocket)]>>
             ELSE <<>>)
            \o SendEach(cs, conns, Tail(users), message, exclude_user)

broadcast_to_session(cs, ac, session_id, message, exclude_user) ==
    IF session_id \notin DOMAIN ac THEN <<>>
    ELSE SendEach(cs, ac[session_id], SetToSeq(DOMAIN ac[session_id]),
                  message, exclude_user)

\* Mutant of send_to_user: the websocket is looked up by user id alone, in
\* whichever session holds one for the user.
send_to_user_any_session(cs, ac, session_id, user_id, message) ==
    LET found == {s \in DOMAIN ac : user_id \in DOMAIN ac[s]}
    IN IF found = {} THEN <<>>
       ELSE LET s == CHOOSE x \in found : TRUE
            IN <<[ch |-> ac[s][user_id], msg |-> message,
                  ok |-> SendOk(cs, ac[s][user_id])]>>

send_to_user(cs, ac, session_id, user_id, message) ==
    IF session_id \in DOMAIN ac /\ user_id \in DOMAIN ac[session_id]
    THEN LET websocket == ac[session_id][user_id]
         IN <<[ch |-> websocket, msg |-> message, ok |-> SendOk(cs, websocket)]>>
    ELSE <<>>

get_session_users(session_id) ==
    IF session_id \in DOMAIN session_participants
    THEN session_participants[session_id] ELSE {}

\* ------------------------------------------------------------ RedisClient
PRESENCE_TTL == 300

\* Mutant of get_presence: the hash is read as if it never expired.
get_presence_kept(pr, session_id, user_id) ==
    IF <<session_id, user_id>> \in DOMAIN pr
    THEN pr[<<session_id, user_id>>].data
    ELSE EmptyDict

get_presence(pr, session_id, user_id) ==
    IF <<session_id, user_id>> \in DOMAIN pr
       /\ now < pr[<<session_id, user_id>>].expire_at
    THEN pr[<<session_id, user_id>>].data
    ELSE EmptyDict

\* HSET key mapping=data, then EXPIRE key 300.
set_presence(pr, session_id, user_id, data) ==
    LET old == get_presence(pr, session_id, user_id)
        merged == [f \in DOMAIN old \cup DOMAIN data |->
                     IF f \in DOMAIN data THEN data[f] ELSE old[f]]
    IN DictSet(pr, <<session_id, user_id>>,
               [data |-> merged, expire_at |-> now + PRESENCE_TTL])

\* What redis-py encodes as an argument of HSET: a value that is None makes
\* the command raise DataError before anything is sent.  connected_at and
\* updated_at hold the string isoformat() returns.
hset_accepts(data) ==
    \A f \in DOMAIN data \ {"connected_at", "updated_at"} : data[f] # None

TYPING_TTL == 5

get_typing_users(ty, session_id) ==
    IF session_id \in DOMAIN ty /\ now < ty[session_id].expire_at
    THEN ty[session_id].members ELSE {}

\* SADD key user, then EXPIRE key 5.
set_typing(ty, session_id, user_id) ==
    DictSet(ty, session_id,
            [members |-> get_typing_users(ty, session_id) \cup {user_id},
             expire_at |-> now + TYPING_TTL])

\* SREM key user: the key's expiry stays, a set emptied is no key.
clear_typing(ty, session_id, user_id) ==
    LET members == get_typing_users(ty, session_id) \ {user_id}
    IN IF members = {} THEN DictPop(ty, session_id)
       ELSE DictSet(ty, session_id,
                    [members |-> members,
                     expire_at |-> ty[session_id].expire_at])

add_participant(rp, session_id, user_id) == rp \cup {<<session_id, user_id>>}
remove_participant(rp, session_id, user_id) == rp \ {<<session_id, user_id>>}

\* connect, lines 43-48: the registry part.
connect_conns(ac, websocket, session_id, user_id) ==
    LET d == IF session_id \in DOMAIN ac THEN ac[session_id] ELSE EmptyDict
    IN DictSet(ac, session_id, DictSet(d, user_id, websocket))

\* Mutant of connect_parts: the set is made but the user is not yet added
\* when the coroutine is first suspended.
connect_parts_late(sp, session_id, user_id) ==
    LET old == IF session_id \in DOMAIN sp THEN sp[session_id] ELSE {}
    IN DictSet(sp, session_id, old)

connect_parts(sp, session_id, user_id) ==
    LET old == IF session_id \in DOMAIN sp THEN sp[session_id] ELSE {}
    IN DictSet(sp, session_id, old \cup {user_id})

\* Mutant of disconnect_conns: the cleanup of an emptied session is lost.
disconnect_conns_no_cleanup(ac, session_id, user_id) ==
    IF session_id \in DOMAIN ac
    THEN DictSet(ac, session_id, DictPop(ac[session_id], user_id))
    ELSE ac

\* disconnect, lines 94-101: the registry part.
disconnect_conns(ac, session_id, user_id) ==
    IF session_id \in DOMAIN ac
    THEN LET d == DictPop(ac[session_id], user_id)
         IN IF DOMAIN d = {} THEN DictPop(ac, session_id)
            ELSE DictSet(ac, session_id, d)
    ELSE ac

disconnect_parts(ac, sp, session_id, user_id) ==
    IF session_id \in DOMAIN ac
    THEN IF DOMAIN DictPop(ac[session_id], user_id) = {}
         THEN DictPop(sp, session_id)
         ELSE DictSet(sp, session_id, sp[session_id] \ {user_id})
    ELSE sp

\* Mutant of snapshot_participants: every member is listed, with whatever
\* the presence hash still holds.
snapshot_all(sp, pr, session_id) ==
    [uid \in sp[session_id] |-> get_presence(pr, session_id, uid)]

\* The participants list of the session_state snapshot (connect, 75-82); the
\* list's order is the set's iteration order and is not kept.
snapshot_participants(sp, pr, session_id) ==
    LET shown == {uid \in sp[session_id] :
                    get_presence(pr, session_id, uid) # EmptyDict}
    IN [uid \in shown |-> get_presence(pr, session_id, uid)]

\* One call into the router, with the session's dict as it was at the call.
Router(ac, fn, session_id, message, exclude_user) ==
    [fn |-> fn, session_id |-> session_id, message |-> message,
     exclude_user |-> exclude_user,
     members |-> IF session_id \in DOMAIN ac THEN ac[session_id]
                 ELSE EmptyDict]

Call(op, session_id, user_id, c, status, detail, routed) ==
    [op |-> op, session_id |-> session_id, user_id |-> user_id, chan |-> c,
     status |-> status, detail |-> detail, routed |-> routed, closed |-> {},
     logged |-> <<>>]

\* ------------------------------------------------------ websocket_endpoint
\* Mutant of verify_token: the signature is not looked at.
verify_token_unchecked(token) ==
    [ok |-> TRUE, sub |-> token.sub, name |-> user_name(token.sub),
     role |-> user_role(token.sub)]

verify_token(token) ==
    IF token.sig = "ok"
    THEN [ok |-> TRUE, sub |-> token.sub, name |-> user_name(token.sub),
          role |-> user_role(token.sub)]
    ELSE [ok |-> FALSE, sub |-> None, name |-> None, role |-> None]

\* The id of the websocket the server is handed next.
NewId(cs) ==
    CHOOSE c \in ChanIds \ DOMAIN cs : \A d \in ChanIds \ DOMAIN cs : c <= d

\* Lines 418-429: the credential does not verify; close(code=4001) and return.
websocket_reject(session_id, token) ==
    /\ DOMAIN chan # ChanIds
    /\ ~verify_token(token).ok
    /\ wire' = <<>>
    /\ last' = [Call("ws_reject", session_id, None, NewId(chan), 4001,
                     "Invalid token", <<>>)
                EXCEPT !.closed = {[chan |-> NewId(chan), code |-> 4001,
                                    reason |-> "Invalid token"]}]
    /\ UNCHANGED <<wsVars, now, dbVars>>

\* The websockets connect() closes (none: lines 33-48 hold no close call).
connect_closes(ac, session_id, user_id) == {}

\* Lines 431-433 and ConnectionManager.connect, lines 33-90.
connect(session_id, token) ==
    LET payload == verify_token(token)
        user_id == payload.sub
        websocket == NewId(chan)
        cs == DictSet(chan, websocket,
                      [session_id |-> session_id, user_id |-> user_id])
        ac == connect_conns(active_connections, websocket, session_id, user_id)
        sp == connect_parts(session_participants, session_id, user_id)
        pr == set_presence(presence, session_id, user_id,
                           [status |-> "active", name |-> payload.name,
                            role |-> payload.role, connected_at |-> now])
        joined == [type |-> "user_joined", user_id |-> user_id,
                   name |-> payload.name, role |-> payload.role,
                   timestamp |-> now]
        state == [type |-> "session_state",
                  participants |-> snapshot_participants(sp, pr, session_id),
                  your_id |-> user_id]
    IN /\ DOMAIN chan # ChanIds
       /\ payload.ok
       /\ chan' = cs
       /\ active_connections' = ac
       /\ session_participants' = sp
       /\ redis_participants' =
              add_participant(redis_participants, session_id, user_id)
       /\ presence' = pr
       /\ wire' = broadcast_to_session(cs, ac, session_id, joined, user_id)
                    \o send_to_user(cs, ac, session_id, user_id, state)
       /\ last' = [Call("connect", session_id, user_id, websocket, 0, None,
                        <<Router(ac, "broadcast", session_id, joined, user_id),
                          Router(ac, "unicast", session_id, state, user_id)>>)
                   EXCEPT !.closed =
                       connect_closes(active_connections, session_id, user_id)]
       /\ UNCHANGED <<typing, now, dbVars>>

\* Mutant of disconnect: user_left is broadcast over the session's dict as
\* it was before the pop.
disconnect_notify_first(cs, ac, sp, rp, session_id, user_id) ==
    LET ac1 == disconnect_conns(ac, session_id, user_id)
        left == [type |-> "user_left", user_id |-> user_id, timestamp |-> now]
    IN [conns |-> ac1,
        parts |-> disconnect_parts(ac, sp, session_id, user_id),
        redis |-> remove_participant(rp, session_id, user_id),
        sends |-> broadcast_to_session(cs, ac, session_id, left, None),
        routed |-> <<Router(ac, "broadcast", session_id, left, None)>>]

\* ConnectionManager.disconnect, lines 92-114, as called at 445-449 by the
\* coroutine of channel c: the registry, the Redis set and the sends.
disconnect(cs, ac, sp, rp, session_id, user_id) ==
    LET ac1 == disconnect_conns(ac, session_id, user_id)
        left == [type |-> "user_left", user_id |-> user_id, timestamp |-> now]
    IN [conns |-> ac1,
        parts |-> disconnect_parts(ac, sp, session_id, user_id),
        redis |-> remove_participant(rp, session_id, user_id),
        sends |-> broadcast_to_session(cs, ac1, session_id, left, None),
        routed |-> <<Router(ac1, "broadcast", session_id, left, None)>>]

\* The end of the coroutine of channel c through one of its except branches:
\* sends and routed are what the step did before the exception was raised.
Leave(c, op, detail, sends, routed) ==
    LET cs == DictPop(chan, c)
        d == disconnect(cs, active_connections, session_participants,
                        redis_participants, chan[c].session_id,
                        chan[c].user_id)
    IN /\ chan' = cs
       /\ active_connections' = d.conns
       /\ session_participants' = d.parts
       /\ redis_participants' = d.redis
       /\ wire' = sends \o d.sends
       /\ last' = Call(op, chan[c].session_id, chan[c].user_id, c, 0, detail,
                       routed \o d.routed)

\* Lines 445-446: receive_json raises WebSocketDisconnect.
on_disconnect(c) ==
    /\ c \in DOMAIN chan
    /\ Leave(c, "disconnect", None, <<>>, <<>>)
    /\ UNCHANGED <<presence, typing, now, dbVars>>

\* ------------------------------------------------- SessionWebSocketHandler
Phases == {"setup", "shared_framing", "perspective_exchange",
           "meaning_negotiation", "reflection_iteration", "complete"}

\* What a client may put in the payload of the events modelled here.  The
\* chat payload carries an id and a timestamp of the client's own making.
ChatPayloads == {[content |-> "hi", message_id |-> <<"client", 7>>,
                  timestamp |-> 99]}
PhasePayloads == {[new_phase |-> p] : p \in {"perspective_exchange", None}}
PhaseInbound == {[type |-> "phase_advance", payload |-> p] : p \in PhasePayloads}
PresencePayloads == {[status |-> "idle", cursor |-> "4", active_element |-> "e1"],
                     [status |-> "idle"]}

CrdtPayloads == {[artifact_id |-> "a1", update |-> "AAEC"],
                 [artifact_id |-> "a2", update |-> "/w=="]}

Inbound ==
    {[type |-> "ping", payload |-> EmptyDict],
     [type |-> "bogus", payload |-> EmptyDict]}
    \cup {[type |-> "chat_message", payload |-> p] : p \in ChatPayloads}
    \cup {[type |-> "phase_advance",
            payload |-> [new_phase |-> "perspective_exchange"]]}
    \cup {[type |-> "crdt_update", payload |-> p] : p \in CrdtPayloads}

\* dict.get(key, default)
Get(d, key, default) == IF key \in DOMAIN d THEN d[key] ELSE default

AiPayloads == {[message |-> "halo"],
               [message |-> "halo", current_phase |-> "complete"],
               [message |-> ""]}
AiInbound == {[type |-> "ai_message", payload |-> p] : p \in AiPayloads}

PresenceInbound ==
    {[type |-> "presence_update", payload |-> p] : p \in PresencePayloads}

VoicePayloads == {[audio |-> "UklGRg=="],
                  [audio |-> "UklGRg==", forward_to_ai |-> TRUE],
                  [audio |-> "UklGRg==", forward_to_ai |-> FALSE],
                  EmptyDict}
VoiceInbound == {[type |-> "voice_input", payload |-> p] : p \in VoicePayloads}

\* What transcribe_bytes may find in the audio.
Transcripts == {"", "halo"}

TypingInbound ==
    {[type |-> "typing_start", payload |-> EmptyDict],
     [type |-> "typing_stop", payload |-> EmptyDict]}

Handled == {"ping", "presence_update", "typing_start", "typing_stop",
            "chat_message", "voice_input", "ai_message", "crdt_update",
            "phase_advance"}

\* A step of the receive loop that ends without an exception.
Returns(c, event, sends, routed) ==
    /\ wire' = sends
    /\ last' = Call(event, chan[c].session_id, chan[c].user_id, c, 0, None,
                    routed)

\* Lines 217-222.
handle_ping(c, payload) ==
    LET session_id == chan[c].session_id
        user_id == chan[c].user_id
        pong == [type |-> "pong", timestamp |-> now]
    IN /\ Returns(c, "ping",
                  send_to_user(chan, active_connections, session_id,
                               user_id, pong),
                  <<Router(active_connections, "unicast", session_id, pong,
                           user_id)>>)
       /\ UNCHANGED <<wsVars, now, dbVars>>

\* uuid4(): an id of the server's making.
uuid4 == <<"uuid4", 1>>

\* Lines 272-282: the event built from the payload.
chat_message_event(user_id, payload) ==
    [type |-> "chat_message", message_id |-> uuid4, user_id |-> user_id,
     name |-> user_name(user_id), role |-> user_role(user_id),
     content |-> payload.content, timestamp |-> now]

\* Mutant of chat_broadcast: the sender is excluded, as for crdt_update.
chat_broadcast_no_echo(cs, ac, session_id, user_id, message) ==
    broadcast_to_session(cs, ac, session_id, message, user_id)

\* Line 285.
chat_broadcast(cs, ac, session_id, user_id, message) ==
    broadcast_to_session(cs, ac, session_id, message, None)

\* Lines 287-295: the document handed to interaction_logs.insert_one.
chat_log(session_id, user_id, payload) ==
    [session_id |-> session_id, interaction_type |-> "chat_message",
     user_id |-> user_id, role |-> user_role(user_id),
     content |-> payload.content]

\* Lines 270-295.  insert_one may raise: the exception then leaves
\* handle_message after the broadcast was made and reaches line 447.
handle_chat_message(c, payload) ==
    LET session_id == chan[c].session_id
        user_id == chan[c].user_id
        message == chat_message_event(user_id, payload)
        sends == chat_broadcast(chan, active_connections, session_id,
                                user_id, message)
        routed == <<Router(active_connections, "broadcast", session_id,
                           message, None)>>
    IN \E inserted \in BOOLEAN :
         IF inserted
         THEN /\ wire' = sends
              /\ last' = [Call("chat_message", session_id, user_id, c, 0,
                               None, routed)
                          EXCEPT !.logged =
                              <<chat_log(session_id, user_id, payload)>>]
              /\ UNCHANGED <<wsVars, now, dbVars>>
         ELSE /\ Leave(c, "chat_message", "raised", sends, routed)
              /\ UNCHANGED <<presence, typing, now, dbVars>>

\* Lines 387-401.
handle_phase_advance(c, payload) ==
    LET session_id == chan[c].session_id
        user_id == chan[c].user_id
        changed == [type |-> "phase_changed", new_phase |-> payload.new_phase,
                    triggered_by |-> user_id, timestamp |-> now]
    IN /\ Returns(c, "phase_advance",
                  broadcast_to_session(chan, active_connections,
                                       session_id, changed, None),
                  <<Router(active_connections, "broadcast", session_id,
                           changed, None)>>)
       /\ UNCHANGED <<wsVars, now, dbVars>>

\* Mutant of crdt_update_event: the event goes out as collaborative_update.
crdt_update_event_renamed(user_id, payload) ==
    [type |-> "collaborative_update", artifact_id |-> payload.artifact_id,
     update |-> payload.update, origin |-> user_id]

\* Lines 376-383: the event forwarded for a crdt_update.
crdt_update_event(user_id, payload) ==
    [type |-> "crdt_update", artifact_id |-> payload.artifact_id,
     update |-> payload.update, origin |-> user_id]

\* Mutant of crdt_exclude: nobody is excluded, as for chat_message.
crdt_exclude_nobody(user_id) == None

\* Line 384: exclude_user of the crdt_update broadcast.
crdt_exclude(user_id) == user_id

\* Lines 371-385.  data is the payload as it was received.
handle_crdt_update(c, payload) ==
    LET session_id == chan[c].session_id
        user_id == chan[c].user_id
        message == crdt_update_event(user_id, payload)
    IN /\ wire' = broadcast_to_session(chan, active_connections, session_id,
                                        message, crdt_exclude(user_id))
       /\ last' = Call("crdt_update", session_id, user_id, c, 0, None,
                       <<Router(active_connections, "broadcast", session_id,
                                message, crdt_exclude(user_id))>>)
                  @@ [data |-> payload]
       /\ UNCHANGED <<wsVars, now, dbVars>>

\* Lines 226-231: the fields written to the presence hash.
presence_fields(payload) ==
    [status |-> Get(payload, "status", "active"),
     cursor |-> Get(payload, "cursor", None),
     active_element |-> Get(payload, "active_element", None),
     updated_at |-> now]

\* Lines 236-242: the event sent to the others, {"user_id": ..., **payload}.
presence_update_event(user_id, payload) ==
    [f \in {"type", "user_id"} \cup DOMAIN payload |->
        IF f = "type" THEN "presence_update"
        ELSE IF f \in DOMAIN payload THEN payload[f] ELSE user_id]

\* Lines 224-244.  The write to Redis may raise, and does for a field that
\* is None: the exception then leaves handle_message before anything is
\* broadcast and reaches line 447.
handle_presence_update(c, payload) ==
    LET session_id == chan[c].session_id
        user_id == chan[c].user_id
        message == presence_update_event(user_id, payload)
    IN IF ~hset_accepts(presence_fields(payload))
       THEN /\ Leave(c, "presence_update", "DataError", <<>>, <<>>)
            /\ UNCHANGED <<presence, typing, now, dbVars>>
       ELSE
       \E written \in BOOLEAN :
         IF written
         THEN /\ presence' = set_presence(presence, session_id, user_id,
                                          presence_fields(payload))
              /\ Returns(c, "presence_update",
                         broadcast_to_session(chan, active_connections,
                                              session_id, message, user_id),
                         <<Router(active_connections, "broadcast", session_id,
                                  message, user_id)>>)
              /\ UNCHANGED <<active_connections, session_participants, chan,
                             redis_participants, typing, now, dbVars>>
         ELSE /\ Leave(c, "presence_update", "raised", <<>>, <<>>)
              /\ UNCHANGED <<presence, typing, now, dbVars>>

\* Lines 246-256.
handle_typing_start(c, payload) ==
    LET session_id == chan[c].session_id
        user_id == chan[c].user_id
        message == [type |-> "typing_start", user_id |-> user_id,
                    name |-> user_name(user_id)]
    IN \E written \in BOOLEAN :
         IF written
         THEN /\ typing' = set_typing(typing, session_id, user_id)
              /\ Returns(c, "typing_start",
                         broadcast_to_session(chan, active_connections,
                                              session_id, message, user_id),
                         <<Router(active_connections, "broadcast", session_id,
                                  message, user_id)>>)
              /\ UNCHANGED <<active_connections, session_participants, chan,
                             redis_participants, presence, now, dbVars>>
         ELSE /\ Leave(c, "typing_start", "raised", <<>>, <<>>)
              /\ UNCHANGED <<presence, typing, now, dbVars>>

\* Lines 258-268.
handle_typing_stop(c, payload) ==
    LET session_id == chan[c].session_id
        user_id == chan[c].user_id
        message == [type |-> "typing_stop", user_id |-> user_id]
    IN \E written \in BOOLEAN :
         IF written
         THEN /\ typing' = clear_typing(typing, session_id, user_id)
              /\ Returns(c, "typing_stop",
                         broadcast_to_session(chan, active_connections,
                                              session_id, message, user_id),
                         <<Router(active_connections, "broadcast", session_id,
                                  message, user_id)>>)
              /\ UNCHANGED <<active_connections, session_participants, chan,
                             redis_participants, presence, now, dbVars>>
         ELSE /\ Leave(c, "typing_stop", "raised", <<>>, <<>>)
              /\ UNCHANGED <<presence, typing, now, dbVars>>

\* Lines 341-344.
ai_processing_event == [type |-> "ai_processing", status |-> "thinking"]

\* Lines 348-355: the arguments of agent.process_message.
process_message_args(session_id, user_id, payload) ==
    [session_id |-> session_id, message |-> Get(payload, "message", ""),
     sender_role |-> user_role(user_id),
     current_phase |-> Get(payload, "current_phase", "shared_framing"),
     request_tts |-> Get(payload, "request_tts", TRUE)]

\* Lines 358-369: the event built from the agent's reply.
ai_response_event(user_id, args) ==
    [type |-> "ai_response", response |-> <<"reply to", args.message>>,
     in_reply_to |-> user_id, timestamp |-> now]

\* Lines 331-369, the call made within the step.  agent.process_message
\* returns or raises (agent.py 87-98 has no except): the exception then
\* leaves handle_message after ai_processing was sent and reaches line 447.
handle_ai_message(c, payload) ==
    LET session_id == chan[c].session_id
        user_id == chan[c].user_id
        args == process_message_args(session_id, user_id, payload)
        thinking == broadcast_to_session(chan, active_connections, session_id,
                                         ai_processing_event, None)
        routed1 == <<Router(active_connections, "broadcast", session_id,
                            ai_processing_event, None)>>
        response == ai_response_event(user_id, args)
    IN IF args.message = ""
       THEN /\ Returns(c, "ai_message", <<>>, <<>>)
            /\ UNCHANGED <<wsVars, now, dbVars>>
       ELSE \E returned \in BOOLEAN :
              IF returned
              THEN /\ wire' = thinking \o
                         broadcast_to_session(chan, active_connections,
                                              session_id, response, None)
                   /\ last' = Call("ai_message", session_id, user_id, c, 0,
                                   None,
                                   routed1 \o
                                   <<Router(active_connections, "broadcast",
                                            session_id, response, None)>>)
                              @@ [called |-> args]
                   /\ UNCHANGED <<wsVars, now, dbVars>>
              ELSE /\ Leave(c, "ai_message", "raised", thinking, routed1)
                   /\ UNCHANGED <<presence, typing, now, dbVars>>

\* Lines 313-322: the event that carries the transcript.
voice_transcript_event(user_id, transcript) ==
    [type |-> "voice_transcript", user_id |-> user_id,
     name |-> user_name(user_id), transcript |-> transcript,
     confidence |-> <<"confidence", transcript>>]

\* Mutant of has_transcript: the test of the transcript is lost.
has_transcript_always(transcript) == TRUE

\* Line 312: `if transcript:`.
has_transcript(transcript) == transcript # ""

\* A handling of voice_input that returns: last keeps the payload, what
\* transcribe_bytes found (heard) and the call made to the agent, if any.
VoiceReturns(c, sends, routed, noted) ==
    /\ wire' = sends
    /\ last' = Call("voice_input", chan[c].session_id, chan[c].user_id, c, 0,
                    None, routed) @@ noted

\* Lines 297-329.  b64decode and transcribe_bytes may raise; a transcript
\* is broadcast and then, unless forward_to_ai is false, handed to
\* _handle_ai_message within the same handling.
handle_voice_input(c, payload) ==
    LET session_id == chan[c].session_id
        user_id == chan[c].user_id
    IN IF Get(payload, "audio", None) = None
       THEN /\ VoiceReturns(c, <<>>, <<>>, [payload |-> payload])
            /\ UNCHANGED <<wsVars, now, dbVars>>
       ELSE
       \E transcribed \in BOOLEAN, transcript \in Transcripts,
          returned \in BOOLEAN :
         LET message == voice_transcript_event(user_id, transcript)
             voice == broadcast_to_session(chan, active_connections,
                                           session_id, message, None)
             routed0 == <<Router(active_connections, "broadcast", session_id,
                                 message, None)>>
             args == process_message_args(
                         session_id, user_id,
                         [message |-> transcript,
                          request_tts |-> Get(payload, "request_tts", TRUE)])
             thinking == broadcast_to_session(chan, active_connections,
                                              session_id, ai_processing_event,
                                              None)
             routed1 == <<Router(active_connections, "broadcast", session_id,
                                 ai_processing_event, None)>>
             response == ai_response_event(user_id, args)
         IN IF ~transcribed
            THEN /\ Leave(c, "voice_input", "raised", <<>>, <<>>)
                 /\ UNCHANGED <<presence, typing, now, dbVars>>
            ELSE IF ~has_transcript(transcript)
            THEN /\ VoiceReturns(c, <<>>, <<>>,
                                 [payload |-> payload, heard |-> transcript])
                 /\ UNCHANGED <<wsVars, now, dbVars>>
            ELSE IF ~Get(payload, "forward_to_ai", TRUE)
            THEN /\ VoiceReturns(c, voice, routed0,
                                 [payload |-> payload, heard |-> transcript])
                 /\ UNCHANGED <<wsVars, now, dbVars>>
            ELSE IF args.message = ""
            THEN /\ VoiceReturns(c, voice, routed0,
                                 [payload |-> payload, heard |-> transcript])
                 /\ UNCHANGED <<wsVars, now, dbVars>>
            ELSE IF returned
            THEN /\ VoiceReturns(c,
                            voice \o thinking \o
                            broadcast_to_session(chan, active_connections,
                                                 session_id, response, None),
                            routed0 \o routed1 \o
                            <<Router(active_connections, "broadcast",
                                     session_id, response, None)>>,
                            [payload |-> payload, heard |-> transcript,
                             called |-> args])
                 /\ UNCHANGED <<wsVars, now, dbVars>>
            ELSE /\ Leave(c, "voice_input", "raised", voice \o thinking,
                          routed0 \o routed1)
                 /\ UNCHANGED <<presence, typing, now, dbVars>>

\* Lines 211-215.
handle_unknown(c, msg_type) ==
    LET session_id == chan[c].session_id
        user_id == chan[c].user_id
        error == [type |-> "error",
                  message |-> <<"Unknown message type: ", msg_type>>]
    IN /\ Returns(c, "unknown",
                  send_to_user(chan, active_connections, session_id,
                               user_id, error),
                  <<Router(active_connections, "unicast", session_id, error,
                           user_id)>>)
       /\ UNCHANGED <<wsVars, now, dbVars>>

\* Lines 438-443 and handle_message, lines 175-215: one received event.
handle_message(c, data) ==
    /\ c \in DOMAIN chan
    /\ CASE data.type = "ping" -> handle_ping(c, data.payload)
         [] data.type = "chat_message" -> handle_chat_message(c, data.payload)
         [] data.type = "phase_advance" -> handle_phase_advance(c, data.payload)
         [] data.type = "crdt_update" -> handle_crdt_update(c, data.payload)
         [] data.type = "ai_message" -> handle_ai_message(c, data.payload)
         [] data.type = "presence_update" ->
                handle_presence_update(c, data.payload)
         [] data.type = "typing_start" -> handle_typing_start(c, data.payload)
         [] data.type = "typing_stop" -> handle_typing_stop(c, data.payload)
         [] data.type = "voice_input" -> handle_voice_input(c, data.payload)
         [] data.type \notin Handled -> handle_unknown(c, data.type)

\* ------------------------------------------------------- api/v1/sessions.py
phase_order == <<"setup", "shared_framing", "perspective_exchange",
                 "meaning_negotiation", "reflection_iteration", "complete">>

\* phase_order.index(phase)
index(phase) == CHOOSE i \in 1..Len(phase_order) : phase_order[i] = phase

Transition(from_phase, to_phase, triggered_by, reason) ==
    [from_phase |-> from_phase, to_phase |-> to_phase,
     triggered_by |-> triggered_by, transition_reason |-> reason]

Http(op, session_id, user_id, status, detail) ==
    /\ last' = Call(op, session_id, user_id, 0, status, detail, <<>>)
    /\ wire' = <<>>

participant_role(user_role_) ==
    IF user_role_ = "vi_user" THEN "vi_user"
    ELSE IF user_role_ = "researcher" THEN "observer" ELSE "designer"

\* Lines 79-140.  The new row's id is a fresh uuid.
create_session(session_id, user_id) ==
    /\ session_id \notin DOMAIN codesign_sessions
    /\ codesign_sessions' = DictSet(codesign_sessions, session_id,
            [current_phase |-> "setup", started_at |-> Null,
             completed_at |-> Null, created_by |-> user_id])
    /\ phase_transitions' = DictSet(phase_transitions, session_id, <<>>)
    /\ db_participants' = Append(db_participants,
            [session_id |-> session_id, user_id |-> user_id,
             role_in_session |-> participant_role(user_role(user_id)),
             left_at |-> Null])
    /\ Http("create_session", session_id, user_id, 201, None)
    /\ UNCHANGED <<wsVars, now, requests>>

\* Mutant of start_allowed: the guard is lost.
start_allowed_always(session) == TRUE

\* Mutant of start_allowed: only a finished session refuses the start.
start_allowed_not_complete(session) == session.current_phase # "complete"

\* Lines 222-226: the guard of start_session.
start_allowed(session) == session.current_phase = "setup"

\* Lines 232-239: the row start_session adds.
start_transition(user_id) ==
    Transition("setup", "shared_framing", user_id, "Session started")

\* Lines 196-244.
start_session(session_id, user_id) ==
    IF session_id \notin DOMAIN codesign_sessions
    THEN /\ Http("start_session", session_id, user_id, 404,
                 "Session tidak ditemukan")
         /\ UNCHANGED <<wsVars, now, dbVars>>
    ELSE IF ~start_allowed(codesign_sessions[session_id])
    THEN /\ Http("start_session", session_id, user_id, 400,
                 "Session sudah dimulai")
         /\ UNCHANGED <<wsVars, now, dbVars>>
    ELSE /\ codesign_sessions' =
                [codesign_sessions EXCEPT
                    ![session_id].current_phase = "shared_framing",
                    ![session_id].started_at = Some(now)]
         /\ phase_transitions' =
                [phase_transitions EXCEPT
                    ![session_id] = Append(@, start_transition(user_id))]
         /\ Http("start_session", session_id, user_id, 200, "shared_framing")
         /\ UNCHANGED <<wsVars, now, db_participants, requests>>

\* Lines 283-289: the guard of advance_phase.
advance_allowed(session) ==
    ~(index(session.current_phase) >= Len(phase_order))

\* Mutant of next_phase: an off-by-one in the index skips a phase.
next_phase_skip(session) ==
    phase_order[IF index(session.current_phase) + 2 <= Len(phase_order)
                THEN index(session.current_phase) + 2
                ELSE Len(phase_order)]

\* Lines 291-293.
next_phase(session) == phase_order[index(session.current_phase) + 1]

\* Mutant of advance_transition: from_phase is read after the update.
advance_transition_after(from_phase, to_phase, user_id) ==
    Transition(to_phase, to_phase, user_id, "Manual advance")

\* Lines 301-308: the row advance_phase adds.
advance_transition(from_phase, to_phase, user_id) ==
    Transition(from_phase, to_phase, user_id, "Manual advance")

\* Lines 247-317.
advance_phase(session_id, user_id) ==
    IF session_id \notin DOMAIN codesign_sessions
    THEN /\ Http("advance_phase", session_id, user_id, 404,
                 "Session tidak ditemukan")
         /\ UNCHANGED <<wsVars, now, dbVars>>
    ELSE IF ~advance_allowed(codesign_sessions[session_id])
    THEN /\ Http("advance_phase", session_id, user_id, 400,
                 "Session sudah selesai")
         /\ UNCHANGED <<wsVars, now, dbVars>>
    ELSE LET session == codesign_sessions[session_id]
             from_phase == session.current_phase
             to_phase == next_phase(session)
         IN /\ codesign_sessions' =
                   [codesign_sessions EXCEPT
                       ![session_id].current_phase = to_phase,
                       ![session_id].completed_at =
                           IF to_phase = "complete" THEN Some(now) ELSE @]
            /\ phase_transitions' =
                   [phase_transitions EXCEPT
                       ![session_id] = Append(@,
                           advance_transition(from_phase, to_phase, user_id))]
            /\ Http("advance_phase", session_id, user_id, 200, to_phase)
            /\ UNCHANGED <<wsVars, now, db_participants, requests>>

\* ------------------------------------------------------------------ system
\* The server clock moves on.
Tick ==
    /\ now < MaxTime
    /\ now' = now + 1
    /\ wire' = <<>>
    /\ last' = Call("tick", None, None, 0, 0, None, <<>>)
    /\ UNCHANGED <<wsVars, dbVars>>

\* The server clock moves on by the time a presence record lives.
TickTTL ==
    /\ now < MaxTime * PRESENCE_TTL
    /\ now' = now + PRESENCE_TTL
    /\ wire' = <<>>
    /\ last' = Call("tick", None, None, 0, 0, None, <<>>)
    /\ UNCHANGED <<wsVars, dbVars>>

Init ==
    /\ active_connections = EmptyDict
    /\ session_participants = EmptyDict
    /\ chan = EmptyDict
    /\ redis_participants = {}
    /\ presence = EmptyDict
    /\ typing = EmptyDict
    /\ now = 0
    /\ wire = <<>>
    /\ last = NoCall
    /\ codesign_sessions = EmptyDict
    /\ db_participants = <<>>
    /\ phase_transitions = EmptyDict
    /\ requests = {}

\* The websocket layer.
Next ==
    \/ \E s \in Sessions, k \in Tokens : websocket_reject(s, k)
    \/ \E s \in Sessions, k \in Tokens : connect(s, k)
    \/ \E c \in ChanIds : on_disconnect(c)
    \/ \E c \in ChanIds, data \in Inbound : handle_message(c, data)

Spec == Init /\ [][Next]_vars

\* The phase endpoints called one request after the other.
DbSessions == {"s1"}

NextPhase ==
    \/ \E s \in DbSessions, u \in Users : create_session(s, u)
    \/ \E s \in DbSessions, u \in Users : start_session(s, u)
    \/ \E s \in DbSessions, u \in Users : advance_phase(s, u)
    \/ Tick

SpecPhase == Init /\ [][NextPhase]_vars

\* The phase endpoints with the websocket layer of the same session beside
\* them.
NextWsPhase ==
    \/ \E s \in DbSessions : create_session(s, "u1")
    \/ \E s \in DbSessions : start_session(s, "u1")
    \/ \E s \in DbSessions : advance_phase(s, "u1")
    \/ \E s \in DbSessions, k \in Tokens : connect(s, k)
    \/ \E c \in ChanIds, data \in PhaseInbound : handle_message(c, data)
    \/ \E c \in ChanIds : on_disconnect(c)

SpecWsPhase == Init /\ [][NextWsPhase]_vars

\* Members attaching to and leaving one session while time goes by.
NextJoin ==
    \/ \E s \in DbSessions, k \in Tokens : connect(s, k)
    \/ \E c \in ChanIds : on_disconnect(c)
    \/ TickTTL

SpecJoin == Init /\ [][NextJoin]_vars

\* The members of one session sending presence updates.
NextPresence ==
    \/ \E s \in DbSessions, k \in Tokens : connect(s, k)
    \/ \E c \in ChanIds : on_disconnect(c)
    \/ \E c \in ChanIds, data \in PresenceInbound : handle_message(c, data)

SpecPresence == Init /\ [][NextPresence]_vars

\* The members of one session sending presence and typing events.
NextTyping ==
    \/ \E s \in DbSessions, k \in Tokens : connect(s, k)
    \/ \E c \in ChanIds : on_disconnect(c)
    \/ \E c \in ChanIds, data \in PresenceInbound \cup TypingInbound :
          handle_message(c, data)

SpecTyping == Init /\ [][NextTyping]_vars

\* The members of one session sending events of every type.
AnyInbound ==
    {[type |-> "ping", payload |-> EmptyDict],
     [type |-> "bogus", payload |-> EmptyDict],
     [type |-> "presence_update", payload |-> [status |-> "idle"]],
     [type |-> "chat_message", payload |-> [content |-> "hi"]],
     [type |-> "ai_message", payload |-> [message |-> "halo"]],
     [type |-> "crdt_update",
      payload |-> [artifact_id |-> "a1", update |-> "AAEC"]],
     [type |-> "phase_advance",
      payload |-> [new_phase |-> "perspective_exchange"]]}
    \cup PresenceInbound \cup TypingInbound \cup VoiceInbound

NextAny ==
    \/ \E s \in DbSessions, k \in Tokens : websocket_reject(s, k)
    \/ \E s \in DbSessions, k \in Tokens : connect(s, k)
    \/ \E c \in ChanIds : on_disconnect(c)
    \/ \E c \in ChanIds, data \in AnyInbound : handle_message(c, data)

SpecAny == Init /\ [][NextAny]_vars

\* The members of one session writing to the AI agent.
NextAi ==
    \/ \E s \in DbSessions, k \in Tokens : connect(s, k)
    \/ \E c \in ChanIds : on_disconnect(c)
    \/ \E c \in ChanIds, data \in AiInbound : handle_message(c, data)

SpecAi == Init /\ [][NextAi]_vars

\* ------------------------------------------------- sessions.py, membership
\* join_session is cut at its awaits: the two selects of lines 337-354 run
\* in one step and the commit of line 369 in a later one, with the requests
\* of other clients in between.  Each request has its own AsyncSession
\* (Depends(get_db)) and the table has no unique constraint on
\* (session_id, user_id) (models/session.py 96-119).
MaxReq == 2
ReqIds == 1..MaxReq
JoinRoles == {"designer"}

ParticipantRows(session_id, user_id) ==
    {j \in 1..Len(db_participants) :
        /\ db_participants[j].session_id = session_id
        /\ db_participants[j].user_id = user_id}

\* Lines 347-353: the rows the duplicate check selects.
join_existing(session_id, user_id) == ParticipantRows(session_id, user_id)

\* Lines 337-360: the checks, up to the await of the commit.
join_session_check(r, session_id, user_id, role) ==
    /\ \A q \in requests : q.id # r
    /\ IF session_id \notin DOMAIN codesign_sessions
       THEN /\ Http("join_session", session_id, user_id, 404,
                    "Session tidak ditemukan")
            /\ UNCHANGED <<wsVars, now, dbVars>>
       ELSE IF Cardinality(join_existing(session_id, user_id)) > 1
       THEN /\ Http("join_session", session_id, user_id, 500,
                    "MultipleResultsFound")
            /\ UNCHANGED <<wsVars, now, dbVars>>
       ELSE IF join_existing(session_id, user_id) # {}
       THEN /\ Http("join_session", session_id, user_id, 400,
                    "Anda sudah bergabung dalam session ini")
            /\ UNCHANGED <<wsVars, now, dbVars>>
       ELSE /\ requests' = requests \cup
                   {[id |-> r, session_id |-> session_id, user_id |-> user_id,
                     role |-> role]}
            /\ Http("join_session", session_id, user_id, 0, "checked")
            /\ UNCHANGED <<wsVars, now, codesign_sessions, db_participants,
                           phase_transitions>>

\* Lines 362-371: the row is added and committed.
join_session_commit(r) ==
    \E q \in requests :
       /\ q.id = r
       /\ requests' = requests \ {q}
       /\ db_participants' = Append(db_participants,
               [session_id |-> q.session_id, user_id |-> q.user_id,
                role_in_session |-> q.role, left_at |-> Null])
       /\ Http("join_session", q.session_id, q.user_id, 200, None)
       /\ UNCHANGED <<wsVars, now, codesign_sessions, phase_transitions>>

\* Lines 376-408.
leave_session(session_id, user_id) ==
    LET rows == ParticipantRows(session_id, user_id)
    IN IF Cardinality(rows) > 1
       THEN /\ Http("leave_session", session_id, user_id, 500,
                    "MultipleResultsFound")
            /\ UNCHANGED <<wsVars, now, dbVars>>
       ELSE IF rows = {}
       THEN /\ Http("leave_session", session_id, user_id, 404,
                    "Anda tidak terdaftar dalam session ini")
            /\ UNCHANGED <<wsVars, now, dbVars>>
       ELSE /\ db_participants' =
                   [j \in 1..Len(db_participants) |->
                      IF j \in rows
                      THEN [db_participants[j] EXCEPT !.left_at = Some(now)]
                      ELSE db_participants[j]]
            /\ Http("leave_session", session_id, user_id, 200, None)
            /\ UNCHANGED <<wsVars, now, codesign_sessions, phase_transitions,
                           requests>>

NextMember ==
    \/ \E s \in DbSessions, u \in Users : create_session(s, u)
    \/ \E r \in ReqIds, s \in DbSessions, u \in Users, role \in JoinRoles :
          join_session_check(r, s, u, role)
    \/ \E r \in ReqIds : join_session_commit(r)
    \/ \E s \in DbSessions, u \in Users : leave_session(s, u)
    \/ Tick

SpecMember == Init /\ [][NextMember]_vars

\* ------------------------------------------------- the event loop
\* In SpecCall a step is what the event loop runs without giving control
\* back.  _handle_ai_message is cut where process_message is: in the call of
\* self.client.messages.create (agent.py line 88), made on the synchronous
\* anthropic.Anthropic client of line 40 with no await, so the thread of the
\* event loop stays inside it until the answer is there; and in the awaits
\* that follow it (lines 116, 133, 143), where the coroutine is suspended and
\* the loop runs the others.  chan[c] holds pc and the arguments of the call
\* while process_message of websocket c is in flight.
CallInbound ==
    {[type |-> "ping", payload |-> EmptyDict]}
    \cup {[type |-> "chat_message", payload |-> p] : p \in ChatPayloads}
    \cup PresenceInbound

CallAiPayloads == {[message |-> "halo"]}

InFlight(t) == "pc" \in DOMAIN t

\* The thread of the event loop is inside messages.create.
LoopHeld == \E c \in DOMAIN chan : InFlight(chan[c]) /\ chan[c].pc = "api"

\* websocket_endpoint lines 436-443 for a coroutine suspended in receive_json.
Serve(c, data) ==
    /\ ~LoopHeld
    /\ c \in DOMAIN chan
    /\ ~InFlight(chan[c])
    /\ handle_message(c, data)

\* Mutant of ai_thinking: nothing is said before the call.
ai_thinking_skipped(cs, ac, session_id) == <<>>

\* handler.py lines 340-344: the notice sent before the call.
ai_thinking(cs, ac, session_id) ==
    broadcast_to_session(cs, ac, session_id, ai_processing_event, None)

\* handler.py lines 331-348 and agent.py lines 47-88: up to the API call.
ai_message_call(c, payload) ==
    /\ ~LoopHeld
    /\ c \in DOMAIN chan
    /\ ~InFlight(chan[c])
    /\ LET session_id == chan[c].session_id
           user_id == chan[c].user_id
           args == process_message_args(session_id, user_id, payload)
       IN /\ args.message # ""
          /\ chan' = DictSet(chan, c,
                             chan[c] @@ [pc |-> "api", called |-> args])
          /\ wire' = ai_thinking(chan, active_connections, session_id)
          /\ last' = Call("ai_message", session_id, user_id, c, 0, None,
                          <<Router(active_connections, "broadcast", session_id,
                                   ai_processing_event, None)>>)
          /\ UNCHANGED <<active_connections, session_participants,
                         redis_participants, presence, typing, now, dbVars>>

\* agent.py lines 88-98: messages.create returns or raises.
messages_create(c) ==
    /\ c \in DOMAIN chan
    /\ InFlight(chan[c])
    /\ chan[c].pc = "api"
    /\ \E returned \in BOOLEAN :
          IF returned
          THEN /\ chan' = DictSet(chan, c, [chan[c] EXCEPT !.pc = "io"])
               /\ wire' = <<>>
               /\ last' = Call("messages.create", chan[c].session_id,
                               chan[c].user_id, c, 0, None, <<>>)
               /\ UNCHANGED <<active_connections, session_participants,
                              redis_participants, presence, typing, now, dbVars>>
          ELSE /\ Leave(c, "messages.create", "raised", <<>>, <<>>)
               /\ UNCHANGED <<presence, typing, now, dbVars>>

\* agent.py lines 143-159 and handler.py lines 357-369: process_message
\* returns and the answer is broadcast.
ai_message_return(c) ==
    /\ ~LoopHeld
    /\ c \in DOMAIN chan
    /\ InFlight(chan[c])
    /\ chan[c].pc = "io"
    /\ LET session_id == chan[c].session_id
           user_id == chan[c].user_id
           response == ai_response_event(user_id, chan[c].called)
       IN /\ chan' = DictSet(chan, c,
                             [f \in DOMAIN chan[c] \ {"pc", "called"} |->
                                 chan[c][f]])
          /\ wire' = broadcast_to_session(chan, active_connections, session_id,
                                          response, None)
          /\ last' = Call("ai_response", session_id, user_id, c, 0, None,
                          <<Router(active_connections, "broadcast", session_id,
                                   response, None)>>)
          /\ UNCHANGED <<active_connections, session_participants,
                         redis_participants, presence, typing, now, dbVars>>

NextCall ==
    \/ \E s \in Sessions, k \in Tokens : ~LoopHeld /\ connect(s, k)
    \/ \E c \in ChanIds :
          ~LoopHeld /\ c \in DOMAIN chan /\ ~InFlight(chan[c]) /\ on_disconnect(c)
    \/ \E c \in ChanIds, data \in CallInbound : Serve(c, data)
    \/ \E c \in ChanIds, payload \in CallAiPayloads : ai_message_call(c, payload)
    \/ \E c \in ChanIds : messages_create(c)
    \/ \E c \in ChanIds : ai_message_return(c)

SpecCall == Init /\ [][NextCall]_vars

\* ------------------------------------------------- coroutines, interleaved
\* In SpecBcast a step is what one coroutine runs between two points where
\* it is suspended inside websocket.send_text within broadcast_to_session
\* (line 131) or inside receive_json (line 438).  chan[c] then also holds the
\* position of the coroutine of websocket c: pc, the iterator of the for
\* loop of line 128 it is suspended in, and whether the client still holds
\* the websocket open.  last tells which coroutine ran the step and whether
\* an exception left broadcast_to_session in it.
MaxTasks == 2         \* websockets whose coroutine is running at one time
TaskIds == 1..MaxTasks
BcastSession == "s1"
BcastInbound ==
    {[type |-> "chat_message",
      payload |-> [content |-> x, message_id |-> <<"client", 7>>,
                   timestamp |-> 99]] : x \in {"hi", "yo"}}

Task(session_id, user_id, pc, open, it) ==
    [session_id |-> session_id, user_id |-> user_id, pc |-> pc,
     open |-> open, it |-> it]

\* websocket.send_text raises on a websocket that is closed or gone.
SendOpen(cs, c) == c \in DOMAIN cs /\ cs[c].open

\* iter(self.active_connections[session_id].items()), line 128.  visited are
\* the keys at or before the iterator's position, size is the dict's size
\* when the iterator was made, stale tells that the dict object was since
\* emptied and dropped from active_connections, snap is the dict's content
\* when the iterator was made (the loop does not read it).
Iter(ac, session_id, message, exclude_user, after) ==
    [session_id |-> session_id, message |-> message,
     exclude_user |-> exclude_user, visited |-> {},
     size |-> Cardinality(DOMAIN ac[session_id]), stale |-> FALSE,
     snap |-> ac[session_id], after |-> after]

\* Mutant of IterNext: the loop runs over list(items()), the dict as it was
\* when the broadcast began.
IterNextSnapshot(ac, it) ==
    LET rest == {u \in DOMAIN it.snap \ it.visited : u # it.exclude_user}
    IN IF rest = {} THEN [kind |-> "done"]
       ELSE [kind |-> "send", user |-> SetToSeq(rest)[1],
             websocket |-> it.snap[SetToSeq(rest)[1]]]

\* next() of the loop of line 128 and the test of line 129.  A dict
\* iterator raises RuntimeError("dictionary changed size during iteration")
\* when the dict's size is not what it was; items() yields the value the
\* dict holds now.
IterNext(ac, it) ==
    IF \/ it.stale
       \/ it.session_id \notin DOMAIN ac
       \/ Cardinality(DOMAIN ac[it.session_id]) # it.size
    THEN [kind |-> "raise"]
    ELSE LET rest == {u \in DOMAIN ac[it.session_id] \ it.visited :
                        u # it.exclude_user}
         IN IF rest = {} THEN [kind |-> "done"]
            ELSE [kind |-> "send", user |-> SetToSeq(rest)[1],
                  websocket |-> ac[it.session_id][SetToSeq(rest)[1]]]

\* The loop of lines 128-133 from the iterator's position to the next
\* send_text, to its end, or to the RuntimeError.
ContinueBroadcast(cs, ac, it) ==
    LET n == IterNext(ac, it)
    IN IF n.kind = "send"
       THEN [kind |-> "send",
             it |-> [it EXCEPT !.visited = @ \cup {n.user}],
             sends |-> <<[ch |-> n.websocket, msg |-> it.message,
                          ok |-> SendOpen(cs, n.websocket)]>>]
       ELSE [kind |-> n.kind, it |-> it, sends |-> <<>>]

\* Lines 123-131: the call of broadcast_to_session up to its first send.
StartBroadcast(cs, ac, session_id, message, exclude_user, after) ==
    IF session_id \notin DOMAIN ac
    THEN [kind |-> "done", it |-> Null, sends |-> <<>>]
    ELSE ContinueBroadcast(cs, ac, Iter(ac, session_id, message,
                                        exclude_user, after))

\* What the removal of user_id from the dict of session_id (lines 95-101)
\* means to the iterators suspended on that dict.
Invalidate(cs, ac1, session_id, user_id) ==
    [c \in DOMAIN cs |->
        IF cs[c].pc \in {"send", "snapshot"} /\ cs[c].it.session_id = session_id
        THEN [cs[c] EXCEPT !.it.visited = @ \ {user_id},
                           !.it.stale = @ \/ session_id \notin DOMAIN ac1]
        ELSE cs[c]]

\* Ids not in use by a running coroutine nor left in the registry.
FreshIds ==
    TaskIds \ (DOMAIN chan \cup
               UNION {{active_connections[s][u] :
                         u \in DOMAIN active_connections[s]} :
                      s \in DOMAIN active_connections})

Step(op, c, detail) == last' = Call(op, None, None, c, 0, detail, <<>>)

\* The coroutine of c goes on from the result r of a broadcast step: it is
\* suspended in a send, or the broadcast is over and it returns to
\* receive_json (after = "recv") or ends (after = "end").
Proceed(cs, c, r, after) ==
    IF r.kind = "send"
    THEN [cs EXCEPT ![c].pc = "send", ![c].it = r.it]
    ELSE IF after = "end" THEN DictPop(cs, c)
    ELSE [cs EXCEPT ![c].pc = "recv", ![c].it = Null]

\* manager.disconnect(session_id, user_id), lines 92-114, up to the first
\* send of user_left, run by the coroutine of c.
Detach(c, op, detail) ==
    LET session_id == chan[c].session_id
        user_id == chan[c].user_id
        ac1 == disconnect_conns(active_connections, session_id, user_id)
        cs1 == Invalidate(chan, ac1, session_id, user_id)
        left == [type |-> "user_left", user_id |-> user_id, timestamp |-> now]
        r == StartBroadcast(cs1, ac1, session_id, left, None, "end")
    IN /\ active_connections' = ac1
       /\ session_participants' =
              disconnect_parts(active_connections, session_participants,
                               session_id, user_id)
       /\ redis_participants' =
              remove_participant(redis_participants, session_id, user_id)
       /\ chan' = Proceed(cs1, c, r, "end")
       /\ wire' = r.sends
       /\ Step(op, c, detail)
       /\ UNCHANGED <<presence, typing, now, dbVars>>

\* Lines 431-433 and connect, lines 41-72: up to the first send of
\* user_joined, or to the session_state when nobody else is there.
task_connect(session_id, token) ==
    LET payload == verify_token(token)
        user_id == payload.sub
        websocket == CHOOSE c \in FreshIds : \A d \in FreshIds : c <= d
        ac == connect_conns(active_connections, websocket, session_id, user_id)
        sp == connect_parts(session_participants, session_id, user_id)
        pr == set_presence(presence, session_id, user_id,
                           [status |-> "active", name |-> payload.name,
                            role |-> payload.role, connected_at |-> now])
        cs == DictSet(chan, websocket,
                      Task(session_id, user_id, "recv", TRUE, Null))
        joined == [type |-> "user_joined", user_id |-> user_id,
                   name |-> payload.name, role |-> payload.role,
                   timestamp |-> now]
        state == [type |-> "session_state",
                  participants |-> snapshot_participants(sp, pr, session_id),
                  your_id |-> user_id]
        r == StartBroadcast(cs, ac, session_id, joined, user_id, "state")
    IN /\ FreshIds # {}
       /\ payload.ok
       /\ active_connections' = ac
       /\ session_participants' = sp
       /\ redis_participants' =
              add_participant(redis_participants, session_id, user_id)
       /\ presence' = pr
       /\ chan' = Proceed(cs, websocket, r, "recv")
       /\ wire' = IF r.kind = "send" THEN r.sends
                  ELSE <<[ch |-> websocket, msg |-> state, ok |-> TRUE]>>
       /\ Step("connect", websocket, None)
       /\ UNCHANGED <<typing, now, dbVars>>

\* The client closes its end of websocket c.
client_close(c) ==
    /\ c \in DOMAIN chan
    /\ chan[c].open
    /\ chan' = [chan EXCEPT ![c].open = FALSE]
    /\ wire' = <<>>
    /\ Step("close", c, None)
    /\ UNCHANGED <<active_connections, session_participants,
                   redis_participants, presence, typing, now, dbVars>>

\* Mutant of Receiving: events are taken up while the one before is still
\* being handled (a task per event).
ReceivingAlways(t) == TRUE

\* Line 438: the coroutine is suspended in receive_json.
Receiving(t) == t.pc = "recv"

\* Lines 438-443 with _handle_chat_message, lines 270-285: one event is
\* received and handled up to the first send of its broadcast.
task_receive(c, data) ==
    LET session_id == chan[c].session_id
        user_id == chan[c].user_id
        message == chat_message_event(user_id, data.payload)
        r == StartBroadcast(chan, active_connections, session_id, message,
                            None, "recv")
    IN /\ c \in DOMAIN chan
       /\ Receiving(chan[c])
       /\ chan[c].open
       /\ chan' = Proceed(chan, c, r, "recv")
       /\ wire' = r.sends
       /\ Step("receive", c, None)
       /\ UNCHANGED <<active_connections, session_participants,
                      redis_participants, presence, typing, now, dbVars>>

\* Lines 445-446: receive_json raises WebSocketDisconnect.
task_disconnect(c) ==
    /\ c \in DOMAIN chan
    /\ chan[c].pc = "recv"
    /\ ~chan[c].open
    /\ Detach(c, "disconnect", None)

\* The coroutine of c is resumed inside broadcast_to_session.  A
\* RuntimeError of the loop leaves broadcast_to_session: raised in a handler
\* it reaches line 447, raised in connect or in disconnect it ends the
\* coroutine (lines 433, 446 and 449 are outside the try).
task_resume(c) ==
    LET it == chan[c].it
        r == ContinueBroadcast(chan, active_connections, it)
        state == [type |-> "session_state",
                  participants |->
                      snapshot_participants(session_participants, presence,
                                            chan[c].session_id),
                  your_id |-> chan[c].user_id]
    IN /\ c \in DOMAIN chan
       /\ chan[c].pc = "send"
       /\ IF r.kind = "raise" /\ it.after = "recv"
          THEN Detach(c, "resume", "RuntimeError")
          ELSE /\ chan' = IF r.kind = "raise" THEN DictPop(chan, c)
                          ELSE Proceed(chan, c, r,
                                       IF it.after = "state" THEN "recv"
                                       ELSE it.after)
               /\ wire' = IF r.kind = "done" /\ it.after = "state"
                          THEN send_to_user(chan, active_connections,
                                            chan[c].session_id,
                                            chan[c].user_id, state)
                          ELSE r.sends
               /\ Step("resume", c,
                       IF r.kind = "raise" THEN "RuntimeError"
                       ELSE None)
               /\ UNCHANGED <<active_connections, session_participants,
                              redis_participants, presence, typing, now, dbVars>>

NextBcast ==
    \/ \E k \in Tokens : task_connect(BcastSession, k)
    \/ \E c \in TaskIds : client_close(c)
    \/ \E c \in TaskIds, data \in BcastInbound : task_receive(c, data)
    \/ \E c \in TaskIds : task_disconnect(c)
    \/ \E c \in TaskIds : task_resume(c)

SpecBcast == Init /\ [][NextBcast]_vars

\* ================================================================== claims
\* Number of send_text calls in w that put message m on channel c.
SendsOf(w, c, m) ==
    Cardinality({j \in 1..Len(w) : w[j].ch = c /\ w[j].msg = m})

\* The call the step ran ended the coroutine of a channel of (s, u) through
\* ConnectionManager.disconnect.
Detached(s, u) ==
    \E c \in DOMAIN chan \ DOMAIN chan' :
        chan[c].session_id = s /\ chan[c].user_id = u

\* C1 (as claimed): a connect for a (session, user) that already has a
\* registered channel closes that earlier channel with a "superseded" reason,
\* and afterwards the registry holds the new channel for that identity.
C1_SupersededClosed ==
    [][\A s \in Sessions, u \in Users :
         (/\ last'.op = "connect"
          /\ last'.session_id = s /\ last'.user_id = u
          /\ s \in DOMAIN active_connections
          /\ u \in DOMAIN active_connections[s])
         => /\ \E x \in last'.closed :
                  /\ x.chan = active_connections[s][u]
                  /\ x.reason = "superseded"
            /\ active_connections[s][u] \notin DOMAIN chan'
            /\ active_connections'[s][u] = last'.chan]_vars

\* C2: a broadcast with exclude_user = U puts the event on no channel of U
\* and exactly once on the channel of every other user registered for the
\* session when the call is made, and on no other channel.
C2_BroadcastExclusion ==
    \A i \in 1..Len(last.routed) :
        LET r == last.routed[i]
        IN r.fn = "broadcast" =>
             \A c \in ChanIds :
                 SendsOf(wire, c, r.message) =
                     IF \E u \in DOMAIN r.members :
                            u # r.exclude_user /\ r.members[u] = c
                     THEN 1 ELSE 0

\* C2 witness: a broadcast that excluded an attached user reached another one.
C2_Witness ==
    \E i \in 1..Len(last.routed) :
        LET r == last.routed[i]
        IN /\ r.fn = "broadcast"
           /\ r.exclude_user \in DOMAIN r.members
           /\ \E v \in DOMAIN r.members :
                  /\ v # r.exclude_user
                  /\ SendsOf(wire, r.members[v], r.message) = 1
           /\ SendsOf(wire, r.members[r.exclude_user], r.message) = 0

\* C3: after the disconnect that follows a connect of (session, user) the
\* user is not among get_session_users(session), and when the user was the
\* last registered member the session has no entry left in active_connections
\* or session_participants.
C3_DetachRemoves ==
    [][\A s \in Sessions, u \in Users :
         Detached(s, u)
         => /\ u \notin (get_session_users(s))'
            /\ ((s \in DOMAIN active_connections =>
                    DOMAIN active_connections[s] \subseteq {u})
                => /\ s \notin DOMAIN active_connections'
                   /\ s \notin DOMAIN session_participants')]_vars

\* C3 witness: the last member of a session has been detached.
C3_Witness ==
    /\ last.op = "disconnect"
    /\ last.session_id \notin DOMAIN active_connections
    /\ last.session_id \notin DOMAIN session_participants
    /\ <<last.session_id, last.user_id>> \in DOMAIN presence

PhaseOf(s) == codesign_sessions[s].current_phase
RowsOf(s) == phase_transitions[s]
RowsTo(s, p) == {j \in 1..Len(RowsOf(s)) : RowsOf(s)[j].to_phase = p}
OnlyAdvanced(s) ==
    \A j \in 1..Len(RowsOf(s)) :
        RowsOf(s)[j].transition_reason = "Manual advance"
Succeeded(op, s) ==
    last'.op = op /\ last'.session_id = s /\ last'.status = 200

\* C4: a session moved from setup by advance_phase alone is in the phase
\* numbered by its successful calls, so it is complete after exactly five of
\* them; an advance_phase call on a complete session fails with "Session
\* sudah selesai", leaves the phase at complete and adds no PhaseTransition.
C4_FiveAdvances ==
    [][\A s \in DOMAIN codesign_sessions :
         /\ (OnlyAdvanced(s))' =>
                /\ (index(PhaseOf(s)))' = Len(RowsOf(s)') + 1
                /\ (PhaseOf(s)' = "complete") <=> (Len(RowsOf(s)') = 5)
         /\ (/\ last'.op = "advance_phase" /\ last'.session_id = s
             /\ PhaseOf(s) = "complete")
            => /\ last'.status = 400
               /\ last'.detail = "Session sudah selesai"
               /\ PhaseOf(s)' = "complete"
               /\ RowsOf(s)' = RowsOf(s)]_vars

\* C4 witness: a sixth advance_phase was refused after five that succeeded.
C4_Witness ==
    /\ last.op = "advance_phase" /\ last.status = 400
    /\ last.session_id \in DOMAIN codesign_sessions
    /\ PhaseOf(last.session_id) = "complete"
    /\ OnlyAdvanced(last.session_id)
    /\ Len(RowsOf(last.session_id)) = 5

\* C5: start_session succeeds only on a session in setup; a start_session
\* right after a successful one fails with "Session sudah dimulai"; and a
\* session has one PhaseTransition to shared_framing once it has left setup
\* and none before.
C5_StartOnce ==
    [][\A s \in DOMAIN codesign_sessions :
         /\ Succeeded("start_session", s) => PhaseOf(s) = "setup"
         /\ (/\ last.op = "start_session" /\ last.session_id = s
             /\ last.status = 200
             /\ last'.op = "start_session" /\ last'.session_id = s)
            => /\ last'.status = 400
               /\ last'.detail = "Session sudah dimulai"
         /\ Cardinality(RowsTo(s, "shared_framing")') =
                IF PhaseOf(s)' = "setup" THEN 0 ELSE 1]_vars

\* C5 witness: the second of two start_session calls in a row was refused.
C5_Witness ==
    /\ last.op = "start_session" /\ last.status = 400
    /\ last.detail = "Session sudah dimulai"
    /\ last.session_id \in DOMAIN codesign_sessions
    /\ PhaseOf(last.session_id) = "shared_framing"
    /\ Len(RowsOf(last.session_id)) = 1
    /\ RowsOf(last.session_id)[1].transition_reason = "Session started"

\* C7: a successful start_session or advance_phase appends exactly one
\* PhaseTransition whose from_phase and to_phase are the phase before and
\* after the call and whose triggered_by is the caller; every other call
\* leaves the rows as they are; rows already written never change.
C7_OneRowPerTransition ==
    [][\A s \in DOMAIN codesign_sessions :
         IF Succeeded("start_session", s) \/ Succeeded("advance_phase", s)
         THEN RowsOf(s)' =
                  Append(RowsOf(s),
                         [from_phase |-> PhaseOf(s), to_phase |-> PhaseOf(s)',
                          triggered_by |-> last'.user_id,
                          transition_reason |->
                              IF last'.op = "start_session"
                              THEN "Session started" ELSE "Manual advance"])
         ELSE RowsOf(s)' = RowsOf(s)]_vars

\* C7 witness: two callers each moved the session and left a row.
C7_Witness ==
    /\ last.op = "advance_phase" /\ last.status = 200
    /\ \E s \in DOMAIN codesign_sessions :
           /\ Len(RowsOf(s)) = 2
           /\ RowsOf(s)[1].triggered_by # RowsOf(s)[2].triggered_by
           /\ RowsOf(s)[1].transition_reason = "Session started"
           /\ RowsOf(s)[2].from_phase = "shared_framing"
           /\ RowsOf(s)[2].to_phase = PhaseOf(s)

\* C6: a session has one current phase, one of the six, and every step that
\* changes it, whichever operation ran (start_session, advance_phase, the
\* websocket phase_advance handler), moves it to the immediate successor in
\* phase_order; a complete session stays complete and no session vanishes.
C6_PhaseOrder ==
    [][\A s \in DOMAIN codesign_sessions :
         /\ s \in DOMAIN codesign_sessions'
         /\ PhaseOf(s)' \in Phases
         /\ \/ PhaseOf(s)' = PhaseOf(s)
            \/ /\ PhaseOf(s) # "complete"
               /\ PhaseOf(s)' = phase_order[index(PhaseOf(s)) + 1]
               /\ last'.op \in {"start_session", "advance_phase"}]_vars

\* C6 witness: the session went through every phase and members of it sent
\* phase_advance over the websocket on the way.
C6_Witness ==
    /\ last.op = "phase_advance"
    /\ last.session_id \in DOMAIN codesign_sessions
    /\ PhaseOf(last.session_id) = "complete"
    /\ Len(RowsOf(last.session_id)) = 5
    /\ RowsOf(last.session_id)[1].transition_reason = "Session started"

\* C8 (as claimed): a phase_advance received on the websocket of a session
\* whose phase is not complete moves the session's phase to the immediate
\* successor and sends every registered member a phase_changed carrying the
\* from phase and the to phase of that move.
C8_WsAdvanceMovesPhase ==
    [][\A s \in DOMAIN codesign_sessions :
         (/\ last'.op = "phase_advance" /\ last'.session_id = s
          /\ PhaseOf(s) # "complete")
         => /\ PhaseOf(s)' = phase_order[index(PhaseOf(s)) + 1]
            /\ \A u \in DOMAIN last'.routed[1].members :
                 \E j \in 1..Len(wire') :
                    /\ wire'[j].ch = last'.routed[1].members[u]
                    /\ wire'[j].msg.type = "phase_changed"
                    /\ {"from", "to"} \subseteq DOMAIN wire'[j].msg
                    /\ wire'[j].msg.from = PhaseOf(s)
                    /\ wire'[j].msg.to = PhaseOf(s)']_vars

\* C9 (as claimed): a phase_advance received on the websocket of a session
\* that is complete sends an error event to the sender's channel and sends
\* no phase_changed to anybody.
C9_WsAdvanceOnCompleteFails ==
    [][\A s \in DOMAIN codesign_sessions :
         (/\ last'.op = "phase_advance" /\ last'.session_id = s
          /\ PhaseOf(s) = "complete")
         => /\ \A j \in 1..Len(wire') :
                  /\ wire'[j].msg.type # "phase_changed"
                  /\ wire'[j].ch = last'.chan
            /\ \E j \in 1..Len(wire') : wire'[j].msg.type = "error"]_vars

\* C11: a crdt_update received from user U is forwarded with the artifact id
\* and the update as received and with origin U, once on the channel of
\* every other registered member of the session, and on no channel of U.
C11_CrdtForward ==
    last.op = "crdt_update" =>
        LET r == last.routed[1]
        IN /\ r.fn = "broadcast"
           /\ r.message.type = "crdt_update"
           /\ r.message.artifact_id = last.data.artifact_id
           /\ r.message.update = last.data.update
           /\ r.message.origin = last.user_id
           /\ \A u \in DOMAIN r.members \ {last.user_id} :
                  SendsOf(wire, r.members[u], r.message) = 1
           /\ \A j \in 1..Len(wire) :
                  /\ wire[j].msg = r.message
                  /\ wire[j].ch # last.chan
                  /\ \A u \in DOMAIN r.members :
                         r.members[u] = wire[j].ch => u # last.user_id

\* C11 witness: a crdt_update of a registered member reached the other one.
C11_Witness ==
    /\ last.op = "crdt_update"
    /\ last.user_id \in DOMAIN last.routed[1].members
    /\ Len(wire) = 1
    /\ wire[1].ch # last.chan
    /\ wire[1].msg.origin = last.user_id
    /\ wire[1].msg.artifact_id = "a2"

\* The step attached user b, until then not registered, to session s.
Joined(s, b) ==
    /\ last'.op = "connect" /\ last'.session_id = s /\ last'.user_id = b
    /\ (s \in DOMAIN active_connections => b \notin DOMAIN active_connections[s])

\* The user ids listed in the session_state sent on channel c.
StateListed(w, c) ==
    UNION {DOMAIN w[j].msg.participants :
             j \in {k \in 1..Len(w) :
                      w[k].ch = c /\ w[k].msg.type = "session_state"}}

JoinedEvents(w, c, b) ==
    {j \in 1..Len(w) : /\ w[j].ch = c /\ w[j].msg.type = "user_joined"
                       /\ w[j].msg.user_id = b}

\* What the join scenario holds of a step, whatever the state of A's
\* presence record.
JoinEvents(s, b) ==
    /\ Cardinality({j \in 1..Len(wire') : wire'[j].ch = last'.chan}) = 1
    /\ JoinedEvents(wire', last'.chan, b) = {}
    /\ s \in DOMAIN active_connections =>
         \A a \in DOMAIN active_connections[s] :
            Cardinality(JoinedEvents(wire', active_connections[s][a], b)) = 1

\* C12 (as claimed): a user A attaching to an empty session gets a
\* session_state listing exactly A; when B then attaches, A gets one
\* user_joined for B, B gets a session_state listing exactly A and B, and B
\* gets no user_joined for B.
C12_JoinScenario ==
    [][\A s \in Sessions, b \in Users :
         Joined(s, b)
         => /\ JoinEvents(s, b)
            /\ StateListed(wire', last'.chan) =
                 {b} \cup (IF s \in DOMAIN active_connections
                           THEN DOMAIN active_connections[s] ELSE {})]_vars

\* C12 (amended): the same, with the session_state listing B and those
\* earlier members whose presence record has not expired when B attaches.
C12_JoinScenarioFresh ==
    [][\A s \in Sessions, b \in Users :
         Joined(s, b)
         => /\ JoinEvents(s, b)
            /\ StateListed(wire', last'.chan) =
                 {b} \cup (IF s \in DOMAIN active_connections
                           THEN {a \in DOMAIN active_connections[s] :
                                   now < presence[<<s, a>>].expire_at}
                           ELSE {})]_vars

\* C12 witness: B attached to the session of A, whose record was fresh, and
\* was told of both while A was told of B.
C12_Witness ==
    /\ last.op = "connect"
    /\ Len(wire) = 2
    /\ wire[1].msg.type = "user_joined" /\ wire[1].ch # last.chan
    /\ wire[2].msg.type = "session_state" /\ wire[2].ch = last.chan
    /\ DOMAIN wire[2].msg.participants = Users
    /\ now >= PRESENCE_TTL

\* C15 (as claimed): when a handler raises while processing an event of
\* user U, U's channel stays open and registered, an error event is sent to
\* U's channel, and nothing is sent to any other channel.
C15_HandlerErrorIsPrivate ==
    [][last'.detail = "raised"
       => /\ last'.chan \in DOMAIN chan'
          /\ active_connections' = active_connections
          /\ session_participants' = session_participants
          /\ \E j \in 1..Len(wire') :
                wire'[j].ch = last'.chan /\ wire'[j].msg.type = "error"
          /\ \A j \in 1..Len(wire') :
                wire'[j].msg.type \in {"error", "user_left"}
                => wire'[j].ch = last'.chan]_vars

\* C16 (as claimed): when agent.process_message fails while an ai_message is
\* handled, an error event is sent to every registered member of the session
\* and the session goes on as it was: nobody is detached.
C16_AiFailureAnnounced ==
    [][(last'.op = "ai_message" /\ last'.detail = "raised")
       => /\ active_connections' = active_connections
          /\ chan' = chan
          /\ \A u \in DOMAIN last'.routed[1].members :
                \E j \in 1..Len(wire') :
                   /\ wire'[j].ch = last'.routed[1].members[u]
                   /\ wire'[j].msg.type = "error"]_vars

\* C17 (as claimed): an event whose type is not one of the nine handled
\* types yields one error event that names the type and goes to the sender,
\* nothing is sent to another user, and the registry, the presence store and
\* the database stay as they were.
C17_UnknownTypeError ==
    [][last'.op = "unknown"
       => /\ Len(wire') = 1
          /\ wire'[1].msg.type = "error"
          /\ wire'[1].msg.message = <<"Unknown message type: ", "bogus">>
          /\ chan[wire'[1].ch].user_id = last'.user_id
          /\ UNCHANGED <<wsVars, dbVars>>]_vars

\* C18: every send_text made by broadcast_to_session or send_to_user, also
\* by a broadcast that other coroutines' connects and disconnects ran in
\* between, goes to a websocket that active_connections holds for the
\* session at that moment: never to one the registry has dropped or replaced.
C18_SendsToRegistered ==
    \A j \in 1..Len(wire) :
        /\ BcastSession \in DOMAIN active_connections
        /\ \E u \in DOMAIN active_connections[BcastSession] :
               active_connections[BcastSession][u] = wire[j].ch

\* C18 witness: while a chat broadcast was suspended in a send, another
\* member's disconnect ran and sent its user_left.
C18_Witness ==
    /\ last.op = "disconnect"
    /\ Len(wire) = 1 /\ wire[1].msg.type = "user_left"
    /\ \E c \in DOMAIN chan :
          /\ chan[c].pc = "send"
          /\ chan[c].it.after = "recv"
          /\ chan[c].it.message.type = "chat_message"
          /\ chan[c].it.size > Cardinality(DOMAIN active_connections[BcastSession])

\* C19 (as claimed): no exception leaves broadcast_to_session, whatever
\* attaches to or detaches from the session while the broadcast is suspended
\* in a send, and a broadcast that is resumed goes on to the next recipient
\* still registered, also after a send that failed.
C19_BroadcastNeverRaises ==
    [][last'.op = "resume"
       => /\ last'.detail # "RuntimeError"
          /\ LET it == chan[last'.chan].it
                 rest == IF it.session_id \in DOMAIN active_connections
                         THEN {u \in DOMAIN active_connections[it.session_id]
                                     \ it.visited : u # it.exclude_user}
                         ELSE {}
             IN rest # {} =>
                  /\ Len(wire') = 1
                  /\ wire'[1].msg = it.message
                  /\ \E u \in rest :
                        wire'[1].ch = active_connections[it.session_id][u]]_vars

\* C20: a coroutine takes the next event of its connection only when it is
\* back in receive_json with no broadcast of the event before left to run,
\* and every send a handler makes when it is resumed carries the event it
\* is handling: the sends of e1 all come before those of e2.
C20_PerSenderOrder ==
    [][/\ last'.op = "receive"
          => /\ chan[last'.chan].pc = "recv"
             /\ chan[last'.chan].it = Null
             /\ \A d \in DOMAIN chan' :
                   (d # last'.chan /\ d \in DOMAIN chan) => chan'[d] = chan[d]
       /\ (/\ last'.op = "resume" /\ last'.detail = None
           /\ chan[last'.chan].it.after = "recv")
          => /\ \A j \in 1..Len(wire') : wire'[j].msg = chan[last'.chan].it.message
             /\ last'.chan \in DOMAIN chan'
             /\ chan'[last'.chan].pc = "send"
                   => chan'[last'.chan].it.message = chan[last'.chan].it.message]_vars

\* C20 witness: the second send of a chat broadcast was made by the resumed
\* handler, which is still suspended in it.
C20_Witness ==
    /\ last.op = "resume"
    /\ Len(wire) = 1 /\ wire[1].msg.type = "chat_message"
    /\ last.chan \in DOMAIN chan
    /\ chan[last.chan].pc = "send"
    /\ Cardinality(chan[last.chan].it.visited) = 2
    /\ wire[1].msg.content = "yo"

\* C13 (as claimed): while process_message of one member's ai_message is in
\* flight, a ping that another member of the same session has sent is
\* received and answered.
C13_NoHeadOfLineInSession ==
    \A a \in DOMAIN chan, b \in DOMAIN chan :
        (/\ InFlight(chan[a])
         /\ ~InFlight(chan[b])
         /\ chan[b].user_id # chan[a].user_id
         /\ chan[b].session_id = chan[a].session_id)
        => ENABLED Serve(b, [type |-> "ping", payload |-> EmptyDict])

\* C14 (as claimed): while process_message for a member of one session is
\* in flight, a ping, a chat_message and a presence_update of a member of
\* another session are handled without waiting for it.
C14_NoHeadOfLineAcrossSessions ==
    \A a \in DOMAIN chan, b \in DOMAIN chan :
        (/\ InFlight(chan[a])
         /\ ~InFlight(chan[b])
         /\ chan[b].session_id # chan[a].session_id)
        => \A data \in CallInbound : ENABLED Serve(b, data)

\* C21: a presence record last written by set_presence PRESENCE_TTL seconds
\* ago or longer is gone, get_presence finds nothing, and a session_state
\* built from then on does not list its user, also when that user's
\* websocket is still in the registry.
C21_StalePresenceOmitted ==
    [][\A s \in Sessions, a \in Users :
         (/\ <<s, a>> \in DOMAIN presence'
          /\ now' >= presence'[<<s, a>>].expire_at)
         => /\ get_presence(presence, s, a)' = EmptyDict
            /\ \A j \in 1..Len(wire') :
                  wire'[j].msg.type = "session_state"
                  => a \notin DOMAIN wire'[j].msg.participants]_vars

\* C21 witness: a user attached to a session whose other member is still
\* registered with a record written PRESENCE_TTL ago, and the session_state
\* lists the new user alone.
C21_Witness ==
    /\ last.op = "connect"
    /\ \E s \in DOMAIN active_connections, a \in Users :
          /\ last.session_id = s
          /\ a # last.user_id
          /\ a \in DOMAIN active_connections[s]
          /\ now >= presence[<<s, a>>].expire_at
          /\ StateListed(wire, last.chan) = {last.user_id}

\* C22 (as claimed): after a presence_update of a user has been written,
\* the user's presence record holds exactly the fields that update wrote:
\* nothing written at attach (name, role, connected_at) is left in it.
C22_UpsertReplaces ==
    [][\A s \in Sessions, u \in Users :
         (/\ last'.op = "presence_update" /\ last'.detail = None
          /\ last'.session_id = s /\ last'.user_id = u)
         => DOMAIN get_presence(presence, s, u)'
              = {"status", "cursor", "active_element", "updated_at"}]_vars

\* C23: a websocket whose token does not verify is closed with code 4001 and
\* nothing else happens: the registry, the participant sets, the presence
\* store and the running coroutines are as before and nothing is sent; only
\* the subject of a verified token is ever given a coroutine.
C23_InvalidTokenRejected ==
    [][/\ last'.op = "ws_reject"
          => /\ last'.closed = {[chan |-> last'.chan, code |-> 4001,
                                 reason |-> "Invalid token"]}
             /\ last'.chan \notin DOMAIN chan'
             /\ wire' = <<>>
             /\ UNCHANGED <<active_connections, session_participants, chan,
                            redis_participants, presence>>
       /\ \A c \in DOMAIN chan' :
             \E k \in Tokens : k.sig = "ok" /\ chan'[c].user_id = k.sub]_vars

\* C23 witness: a websocket was turned away while a session had a member.
C23_Witness ==
    /\ last.op = "ws_reject"
    /\ last.status = 4001
    /\ active_connections # EmptyDict
    /\ last.session_id \in DOMAIN active_connections

\* C24 (as claimed): a user has at most one row in session_participants per
\* session, whatever join requests run and however they interleave; a join
\* of a user who has a row fails and adds none; leave_session sets left_at
\* of the row and removes no row.
C24_OneRecordPerUser ==
    [][/\ \A s \in Sessions, u \in Users :
             Cardinality(ParticipantRows(s, u))' <= 1
       /\ Len(db_participants') >= Len(db_participants)
       /\ \A s \in Sessions, u \in Users :
             (/\ last'.op = "leave_session" /\ last'.status = 200
              /\ last'.session_id = s /\ last'.user_id = u)
             => /\ Len(db_participants') = Len(db_participants)
                /\ \A j \in ParticipantRows(s, u) :
                      db_participants'[j].left_at # Null]_vars

\* The send_text calls in w that carry user_left for u.
LeftEvents(w, u) ==
    {j \in 1..Len(w) : w[j].msg.type = "user_left" /\ w[j].msg.user_id = u}

\* C25: when the coroutine of a websocket of (s, u) ends through disconnect,
\* each member the registry still holds for s is sent user_left for u
\* exactly once, on its registered websocket; no user_left goes to any other
\* websocket, the one that has just ended included; and with no member left
\* in s nothing is sent.
C25_UserLeftToRemaining ==
    [][\A s \in Sessions, u \in Users :
         Detached(s, u)
         => IF s \in DOMAIN active_connections'
            THEN /\ \A v \in DOMAIN active_connections'[s] :
                       Cardinality({j \in LeftEvents(wire', u) :
                                      /\ wire'[j].ch = active_connections'[s][v]
                                      /\ wire'[j].ok}) = 1
                 /\ Cardinality(LeftEvents(wire', u))
                      = Cardinality(DOMAIN active_connections'[s])
                 /\ \A j \in LeftEvents(wire', u) :
                       wire'[j].ch \in DOMAIN chan'
            ELSE \A j \in 1..Len(wire') : wire'[j].msg.type # "user_left"]_vars

\* C25 witness: a member closed its connection and the one member left in
\* the session, another user, was sent the user_left.
C25_Witness ==
    /\ last.op = "disconnect"
    /\ Len(wire) = 1
    /\ wire[1].msg = [type |-> "user_left", user_id |-> last.user_id,
                      timestamp |-> now]
    /\ wire[1].ok
    /\ last.session_id \in DOMAIN active_connections
    /\ \E v \in Users \ {last.user_id} :
          active_connections[last.session_id] = [x \in {v} |-> wire[1].ch]

\* C26 (as claimed): a presence_update, typing_start or typing_stop of user
\* U that the store takes is sent once to every other member the registry
\* holds and to no websocket of U; typing_start puts U in the session's
\* typing set and typing_stop takes U out of it.
C26_PresenceTypingFanOut ==
    [][\A s \in Sessions, u \in Users :
         (/\ last'.op \in {"presence_update", "typing_start", "typing_stop"}
          /\ last'.detail # "raised"
          /\ last'.session_id = s /\ last'.user_id = u)
         => /\ s \in DOMAIN active_connections
               => \A v \in DOMAIN active_connections[s] \ {u} :
                     Cardinality({j \in 1..Len(wire') :
                                    /\ wire'[j].ch = active_connections[s][v]
                                    /\ wire'[j].msg.type = last'.op
                                    /\ wire'[j].msg.user_id = u}) = 1
            /\ \A j \in 1..Len(wire') :
                  /\ wire'[j].ch # last'.chan
                  /\ (s \in DOMAIN active_connections
                      /\ u \in DOMAIN active_connections[s])
                     => wire'[j].ch # active_connections[s][u]
            /\ last'.op = "typing_start" => u \in get_typing_users(typing, s)'
            /\ last'.op = "typing_stop" => u \notin get_typing_users(typing, s)']_vars

\* C27 (as claimed): a ping of user U is answered with one pong, sent to U
\* and to nobody else, and the registry, the presence and typing stores, the
\* database and the interaction log stay as they were.
C27_PingPong ==
    [][last'.op = "ping"
       => /\ Len(wire') = 1
          /\ wire'[1].msg.type = "pong"
          /\ chan[wire'[1].ch].user_id = last'.user_id
          /\ chan[wire'[1].ch].session_id = last'.session_id
          /\ last'.logged = <<>>
          /\ UNCHANGED <<wsVars, dbVars>>]_vars

\* C28 (as claimed): when the insert into interaction_logs fails while a
\* chat_message is handled, every registered member has been sent the
\* chat_message, nothing else is sent, and the sender's websocket stays
\* registered with its receive loop running.
C28_LogFailureHarmless ==
    [][(last'.op = "chat_message" /\ last'.detail = "raised")
       => /\ \A j \in 1..Len(wire') : wire'[j].msg.type = "chat_message"
          /\ last'.session_id \in DOMAIN active_connections
             => \A v \in DOMAIN active_connections[last'.session_id] :
                   \E j \in 1..Len(wire') :
                      wire'[j].ch = active_connections[last'.session_id][v]
          /\ last'.chan \in DOMAIN chan'
          /\ active_connections' = active_connections]_vars

\* The types of the events the server sends, as the specification lists
\* them, and as the handlers name them.
SpecVocabulary ==
    {"user_joined", "user_left", "session_state", "presence_update",
     "typing_start", "typing_stop", "chat_message", "voice_transcript",
     "ai_processing", "ai_response", "collaborative_update", "phase_changed",
     "pong", "error"}
CodeVocabulary ==
    (SpecVocabulary \ {"collaborative_update"}) \cup {"crdt_update"}

SentType(w, ty) == {j \in 1..Len(w) : w[j].msg.type = ty}

\* Each member the registry ac holds for session s is sent, in w, exactly
\* one event of type ty, and no other websocket is sent one.
ToWholeSession(w, ac, s, ty) ==
    /\ \A j \in SentType(w, ty) :
          /\ s \in DOMAIN ac
          /\ \E v \in DOMAIN ac[s] : ac[s][v] = w[j].ch
    /\ s \in DOMAIN ac
       => \A v \in DOMAIN ac[s] :
             Cardinality({j \in SentType(w, ty) : w[j].ch = ac[s][v]}) = 1

\* C30: the step that makes the facilitation call for a message with text
\* has first sent ai_processing to every member of the session; the step in
\* which the handler goes on after the call returned sends one ai_response,
\* in reply to the caller, to every member of the session; and ai_response
\* is sent by no other step, so that it never precedes its ai_processing.
C30_ProcessingThenResponse ==
    [][\A c \in ChanIds :
         /\ (/\ c \in DOMAIN chan' /\ InFlight(chan'[c]) /\ chan'[c].pc = "api"
             /\ c \in DOMAIN chan /\ ~InFlight(chan[c]))
            => /\ chan'[c].called.message # ""
               /\ SentType(wire', "ai_processing") # {}
                  \/ chan[c].session_id \notin DOMAIN active_connections
               /\ ToWholeSession(wire', active_connections,
                                 chan[c].session_id, "ai_processing")
               /\ SentType(wire', "ai_response") = {}
         /\ (/\ c \in DOMAIN chan /\ InFlight(chan[c]) /\ chan[c].pc = "io"
             /\ c \in DOMAIN chan' /\ ~InFlight(chan'[c]))
            => /\ ToWholeSession(wire', active_connections,
                                 chan[c].session_id, "ai_response")
               /\ \A j \in SentType(wire', "ai_response") :
                     wire'[j].msg = ai_response_event(chan[c].user_id,
                                                      chan[c].called)
         /\ SentType(wire', "ai_response") # {}
            => \E d \in DOMAIN chan :
                  /\ InFlight(chan[d]) /\ chan[d].pc = "io"
                  /\ d \in DOMAIN chan' /\ ~InFlight(chan'[d])]_vars

\* C30 witness: the answer of a call made for one member went to both
\* members of the session.
C30_Witness ==
    /\ last.op = "ai_response"
    /\ Len(wire) = 2
    /\ wire[1].msg.type = "ai_response" /\ wire[1].ok
    /\ wire[2].msg.type = "ai_response" /\ wire[2].ok
    /\ wire[1].ch # wire[2].ch
    /\ wire[1].msg.in_reply_to = last.user_id

\* ------------------------------------------- facilitation and the phase
\* The phase endpoints of one session with its members writing to the AI
\* agent beside them.
AiPhaseInbound ==
    {[type |-> "ai_message", payload |-> p] :
        p \in {[message |-> "halo"],
               [message |-> "halo", current_phase |-> "complete"]}}

\* The bodies a client may post to /ai/sessions/{id}/message: the context is
\* absent, empty or names a phase.
AiRequests ==
    {[message |-> "halo", context |-> x] :
        x \in {Null, Some(EmptyDict), Some([current_phase |-> "complete"])}}

\* ai.py line 40: the phase send_message_to_ai hands to the agent.
request_phase(request) ==
    IF request.context # Null /\ DOMAIN request.context[1] # {}
    THEN Get(request.context[1], "current_phase", "shared_framing")
    ELSE "shared_framing"

\* ai.py lines 21-56.  agent.process_message returns or raises.
send_message_to_ai(session_id, user_id, request) ==
    \E returned \in BOOLEAN :
       /\ last' = Call("send_message_to_ai", session_id, user_id, 0,
                       IF returned THEN 200 ELSE 500, None, <<>>)
                  @@ [called |->
                        [session_id |-> session_id,
                         message |-> request.message,
                         sender_role |-> user_role(user_id),
                         current_phase |-> request_phase(request),
                         request_tts |-> TRUE]]
       /\ wire' = <<>>
       /\ UNCHANGED <<wsVars, now, dbVars>>

NextAiPhase ==
    \/ \E s \in DbSessions : create_session(s, "u1")
    \/ \E s \in DbSessions : start_session(s, "u1")
    \/ \E s \in DbSessions : advance_phase(s, "u1")
    \/ \E s \in DbSessions, u \in Users, q \in AiRequests :
          send_message_to_ai(s, u, q)
    \/ \E s \in DbSessions, k \in Tokens : connect(s, k)
    \/ \E c \in ChanIds, data \in AiPhaseInbound : handle_message(c, data)
    \/ \E c \in ChanIds : on_disconnect(c)

SpecAiPhase == Init /\ [][NextAiPhase]_vars

\* C31 (as claimed): the current_phase handed to agent.process_message for
\* a message to the AI agent of a session, over the websocket or over
\* HTTP, is the current_phase the session's row holds at the time of the
\* call.
C31_PhaseIsCanonical ==
    (/\ last.op \in {"ai_message", "send_message_to_ai"}
     /\ "called" \in DOMAIN last
     /\ last.session_id \in DOMAIN codesign_sessions)
    => last.called.current_phase =
          codesign_sessions[last.session_id].current_phase

\* ------------------------------------------------------------ voice input
\* The members of one session sending voice input.
NextVoice ==
    \/ \E s \in DbSessions, k \in Tokens : connect(s, k)
    \/ \E c \in ChanIds : on_disconnect(c)
    \/ \E c \in ChanIds, data \in VoiceInbound : handle_message(c, data)

SpecVoice == Init /\ [][NextVoice]_vars

\* The types of the events w puts on websocket ch, in the order sent.
TypesOn(w, ch) ==
    LET sent == SelectSeq(w, LAMBDA e : e.ch = ch)
    IN [j \in 1..Len(sent) |-> sent[j].msg.type]

\* C32: a handling of voice_input that returns.  With no audio or an empty
\* transcript nothing is sent and the agent is not called.  With a
\* transcript, every member of the session is sent one voice_transcript
\* carrying it; if forward_to_ai is not false, the agent is called with the
\* transcript as its message and every member is sent voice_transcript,
\* ai_processing and ai_response, in this order and once each, the
\* ai_response being the reply to that transcript; nobody else is sent
\* anything.
C32_VoiceInput ==
    [][(last'.op = "voice_input" /\ last'.detail = None)
       => LET s == last'.session_id
              members == IF s \in DOMAIN active_connections
                         THEN active_connections[s] ELSE EmptyDict
              heard == Get(last', "heard", "")
              forward == Get(last'.payload, "forward_to_ai", TRUE)
          IN IF heard = ""
             THEN wire' = <<>> /\ "called" \notin DOMAIN last'
             ELSE /\ \A j \in 1..Len(wire') :
                        /\ \E v \in DOMAIN members : members[v] = wire'[j].ch
                        /\ wire'[j].msg.type = "voice_transcript"
                           => /\ wire'[j].msg.transcript = heard
                              /\ wire'[j].msg.user_id = last'.user_id
                        /\ wire'[j].msg.type = "ai_response"
                           => /\ wire'[j].msg.response = <<"reply to", heard>>
                              /\ wire'[j].msg.in_reply_to = last'.user_id
                  /\ \A v \in DOMAIN members :
                        TypesOn(wire', members[v]) =
                           IF forward
                           THEN <<"voice_transcript", "ai_processing",
                                  "ai_response">>
                           ELSE <<"voice_transcript">>
                  /\ IF forward
                     THEN /\ "called" \in DOMAIN last'
                          /\ last'.called.message = heard
                          /\ last'.called.session_id = s
                     ELSE "called" \notin DOMAIN last']_vars

\* Two members are attached; one's voice input was transcribed and forwarded,
\* and both were sent the transcript, the notice and the reply.
C32_Witness ==
    /\ last.op = "voice_input"
    /\ last.detail = None
    /\ "called" \in DOMAIN last
    /\ last.heard = "halo"
    /\ Len(wire) = 6
    /\ wire[1].ch # wire[2].ch
    /\ wire[6].msg.type = "ai_response"

\* ------------------------------------------- a client gone during the call
\* The members of one session writing to the AI agent, where a client may
\* close its websocket while agent.process_message of its coroutine is in
\* flight.  The coroutine is not told: it learns of the close from
\* receive_json (line 438) once the handler has returned.
Open(t) == "open" \in DOMAIN t => t.open

\* Mutant of hangup: the close cancels the coroutine, which ends through
\* manager.disconnect at once.
hangup_cancels(c) ==
    /\ c \in DOMAIN chan
    /\ InFlight(chan[c])
    /\ Open(chan[c])
    /\ Leave(c, "close", None, <<>>, <<>>)
    /\ UNCHANGED <<presence, typing, now, dbVars>>

\* The client of websocket c closes it while the coroutine of c is inside
\* agent.process_message (handler.py line 348).
hangup(c) ==
    /\ c \in DOMAIN chan
    /\ InFlight(chan[c])
    /\ Open(chan[c])
    /\ chan' = DictSet(chan, c, chan[c] @@ [open |-> FALSE])
    /\ wire' = <<>>
    /\ last' = Call("close", chan[c].session_id, chan[c].user_id, c, 0, None,
                    <<>>)
    /\ UNCHANGED <<active_connections, session_participants,
                   redis_participants, presence, typing, now, dbVars>>

HangupInbound == {[type |-> "ping", payload |-> EmptyDict]}

NextHangup ==
    \/ \E s \in DbSessions, k \in Tokens : ~LoopHeld /\ connect(s, k)
    \/ \E c \in ChanIds :
          ~LoopHeld /\ c \in DOMAIN chan /\ ~InFlight(chan[c]) /\ on_disconnect(c)
    \/ \E c \in ChanIds, data \in HangupInbound :
          c \in DOMAIN chan /\ Open(chan[c]) /\ Serve(c, data)
    \/ \E c \in ChanIds, payload \in CallAiPayloads :
          c \in DOMAIN chan /\ Open(chan[c]) /\ ai_message_call(c, payload)
    \/ \E c \in ChanIds : hangup(c)
    \/ \E c \in ChanIds : messages_create(c)
    \/ \E c \in ChanIds : ai_message_return(c)

SpecHangup == Init /\ [][NextHangup]_vars

\* The coroutine of websocket c is inside agent.process_message and its
\* client has closed the websocket.
GoneInCall(cs, c) == c \in DOMAIN cs /\ InFlight(cs[c]) /\ ~Open(cs[c])

\* C33: a client's close during its facilitation call leaves the call in
\* flight and the registry as it was.  When the call of a closed websocket c
\* returns, the step sends one ai_response, in reply to c's user, to every
\* registered member of the session and to nobody else; the sends to
\* websockets still open succeed, the send to a closed one fails and is
\* dropped; the step detaches nobody; and c's coroutine is back in
\* receive_json, where the close makes manager.disconnect the only thing it
\* can do next.
C33_CallOutlivesClose ==
    /\ [][\A c \in DOMAIN chan :
            /\ (last'.op = "close" /\ last'.chan = c)
               => /\ GoneInCall(chan', c)
                  /\ chan'[c].called = chan[c].called
                  /\ chan'[c].pc = chan[c].pc
                  /\ active_connections' = active_connections
                  /\ wire' = <<>>
            /\ (GoneInCall(chan, c) /\ last'.op = "ai_response"
                /\ last'.chan = c)
               => LET s == chan[c].session_id
                      members == IF s \in DOMAIN active_connections
                                 THEN active_connections[s] ELSE EmptyDict
                  IN /\ \A j \in 1..Len(wire') :
                          /\ wire'[j].msg.type = "ai_response"
                          /\ wire'[j].msg.in_reply_to = chan[c].user_id
                          /\ wire'[j].msg.response =
                                <<"reply to", chan[c].called.message>>
                          /\ \E v \in DOMAIN members :
                                members[v] = wire'[j].ch
                          /\ wire'[j].ok <=> Open(chan[wire'[j].ch])
                     /\ \A v \in DOMAIN members :
                          Cardinality({j \in 1..Len(wire') :
                                         wire'[j].ch = members[v]}) = 1
                     /\ last'.detail = None
                     /\ active_connections' = active_connections
                     /\ session_participants' = session_participants
                     /\ c \in DOMAIN chan'
                     /\ ~InFlight(chan'[c])
                     /\ ~Open(chan'[c])]_vars
    /\ [](\A c \in ChanIds :
            (c \in DOMAIN chan /\ ~InFlight(chan[c]) /\ ~Open(chan[c]))
            => /\ ENABLED on_disconnect(c)
               /\ \A data \in HangupInbound :
                     ~ENABLED (Open(chan[c]) /\ Serve(c, data)))

\* u1's client closed its websocket during the call; the call returned and
\* the answer went to u1's websocket, where the send failed, and to u2's.
C33_Witness ==
    /\ last.op = "ai_response"
    /\ last.chan \in DOMAIN chan
    /\ ~Open(chan[last.chan])
    /\ Len(wire) = 2
    /\ \E j \in 1..2 : wire[j].ch = last.chan /\ ~wire[j].ok
    /\ \E j \in 1..2 : wire[j].ch # last.chan /\ wire[j].ok

\* C34 (as claimed): when the receive loop of a websocket c of (s, u) ends
\* while the registry holds another, still open websocket for (s, u), that
\* newer websocket stays registered, u stays in the participant set of s,
\* and no user_left naming u is sent.
C34_SupersededEndKeepsNewer ==
    [][\A c \in DOMAIN chan :
         LET s == chan[c].session_id
             u == chan[c].user_id
         IN (/\ last'.op = "disconnect" /\ last'.chan = c
             /\ s \in DOMAIN active_connections
             /\ u \in DOMAIN active_connections[s]
             /\ active_connections[s][u] # c
             /\ active_connections[s][u] \in DOMAIN chan)
            => /\ s \in DOMAIN active_connections'
               /\ u \in DOMAIN active_connections'[s]
               /\ active_connections'[s][u] = active_connections[s][u]
               /\ u \in session_participants'[s]
               /\ <<s, u>> \in redis_participants'
               /\ \A j \in 1..Len(wire') :
                     ~(wire'[j].msg.type = "user_left"
                       /\ wire'[j].msg.user_id = u)]_vars

\* C35: wherever a coroutine is suspended, active_connections and
\* session_participants have the same sessions as keys, each session's
\* participant set is the set of keys of its dict of websockets, and no
\* session is kept with nobody in it.
C35_RegistryConsistent ==
    /\ DOMAIN active_connections = DOMAIN session_participants
    /\ \A s \in DOMAIN active_connections :
          /\ DOMAIN active_connections[s] = session_participants[s]
          /\ session_participants[s] # {}

\* One member has detached while another member's coroutine is suspended
\* inside a broadcast, and one member is left in the session.
C35_Witness ==
    /\ last.op = "disconnect"
    /\ BcastSession \in DOMAIN active_connections
    /\ Cardinality(DOMAIN active_connections[BcastSession]) = 1
    /\ \E c \in DOMAIN chan : chan[c].pc = "send" /\ c # last.chan

\* ----------------------------------------------- connect, cut at its awaits
\* In SpecLeak manager.connect is cut at the awaits where it can fail or be
\* overtaken: the Redis calls of lines 51-57, the sends of the user_joined
\* broadcast, and get_presence inside the loop over the participant set
\* (lines 76-77).  websocket_endpoint calls connect outside its try (line
\* 433), so an exception of connect ends the coroutine there.
LeakSession == "s1"

\* iter(self.session_participants[session_id]), line 76: a set iterator
\* raises RuntimeError when the set's size is not what it was.
SnapshotIter(ac, session_id) == Iter(ac, session_id, None, None, "state")

\* Lines 431-433 and connect, lines 41-77: up to the failing Redis call, to
\* the first send of user_joined, or to the first get_presence of the loop.
connect_begin(session_id, token) ==
    LET payload == verify_token(token)
        user_id == payload.sub
        websocket == CHOOSE c \in FreshIds : \A d \in FreshIds : c <= d
        ac == connect_conns(active_connections, websocket, session_id, user_id)
        sp == connect_parts(session_participants, session_id, user_id)
        pr == set_presence(presence, session_id, user_id,
                           [status |-> "active", name |-> payload.name,
                            role |-> payload.role, connected_at |-> now])
        cs == DictSet(chan, websocket,
                      Task(session_id, user_id, "recv", TRUE, Null))
        joined == [type |-> "user_joined", user_id |-> user_id,
                   name |-> payload.name, role |-> payload.role,
                   timestamp |-> now]
        r == StartBroadcast(cs, ac, session_id, joined, user_id, "snapshot")
    IN /\ FreshIds # {}
       /\ payload.ok
       /\ active_connections' = ac
       /\ session_participants' = sp
       /\ \E stored \in BOOLEAN :
             IF stored
             THEN /\ redis_participants' =
                        add_participant(redis_participants, session_id,
                                        user_id)
                  /\ presence' = pr
                  /\ chan' = IF r.kind = "send"
                             THEN Proceed(cs, websocket, r, "snapshot")
                             ELSE [cs EXCEPT
                                     ![websocket].pc = "snapshot",
                                     ![websocket].it =
                                         SnapshotIter(ac, session_id)]
                  /\ wire' = r.sends
                  /\ Step("connect", websocket, None)
             ELSE /\ redis_participants' = redis_participants
                  /\ presence' = presence
                  /\ chan' = chan
                  /\ wire' = <<>>
                  /\ Step("connect", websocket, "raised")
       /\ UNCHANGED <<typing, now, dbVars>>

\* The coroutine of c is resumed inside connect: in the user_joined
\* broadcast (lines 128-133) or in the loop of lines 76-82, after which the
\* session_state is sent (84-90) and the receive loop begins.
connect_resume(c) ==
    LET it == chan[c].it
        session_id == chan[c].session_id
        r == ContinueBroadcast(chan, active_connections, it)
        n == IterNext(active_connections, it)
        state == [type |-> "session_state",
                  participants |->
                      snapshot_participants(session_participants, presence,
                                            session_id),
                  your_id |-> chan[c].user_id]
    IN /\ c \in DOMAIN chan
       /\ \/ chan[c].pc = "send" /\ it.after = "snapshot"
          \/ chan[c].pc = "snapshot"
       /\ IF chan[c].pc = "send"
          THEN /\ chan' = IF r.kind = "raise" THEN DictPop(chan, c)
                          ELSE IF r.kind = "send"
                          THEN Proceed(chan, c, r, "snapshot")
                          ELSE [chan EXCEPT
                                  ![c].pc = "snapshot",
                                  ![c].it = SnapshotIter(active_connections,
                                                         session_id)]
               /\ wire' = r.sends
               /\ Step("resume", c,
                       IF r.kind = "raise" THEN "RuntimeError" ELSE None)
          ELSE /\ chan' = IF n.kind = "raise" THEN DictPop(chan, c)
                          ELSE [chan EXCEPT ![c].pc = "recv", ![c].it = Null]
               /\ wire' = IF n.kind = "raise" THEN <<>>
                          ELSE send_to_user(chan, active_connections,
                                            session_id, chan[c].user_id,
                                            state)
               /\ Step("resume", c,
                       IF n.kind = "raise" THEN "RuntimeError" ELSE None)
       /\ UNCHANGED <<active_connections, session_participants,
                      redis_participants, presence, typing, now, dbVars>>

NextLeak ==
    \/ \E k \in Tokens : connect_begin(LeakSession, k)
    \/ \E c \in TaskIds : connect_resume(c)
    \/ \E c \in TaskIds : client_close(c)
    \/ \E c \in TaskIds : task_disconnect(c)
    \/ \E c \in TaskIds :
          /\ c \in DOMAIN chan
          /\ chan[c].pc = "send"
          /\ chan[c].it.after = "end"
          /\ task_resume(c)

SpecLeak == Init /\ [][NextLeak]_vars

\* C36 (as claimed): every websocket the registry holds has a running
\* coroutine, which will detach it; a connect that raised has left no entry
\* behind.
C36_NoLeakedEntry ==
    \A s \in DOMAIN active_connections :
       \A u \in DOMAIN active_connections[s] :
          active_connections[s][u] \in DOMAIN chan

\* C37 (as claimed): a session's started_at is set exactly when its
\* current_phase is not setup, and its completed_at exactly when its
\* current_phase is complete.
C37_TimestampsFollowPhase ==
    \A s \in DOMAIN codesign_sessions :
       /\ (codesign_sessions[s].started_at # Null) <=> (PhaseOf(s) # "setup")
       /\ (codesign_sessions[s].completed_at # Null)
          <=> (PhaseOf(s) = "complete")

\* ------------------------------------------- sessions.py, phases in requests
\* In SpecPhaseRace start_session and advance_phase are cut at their awaits:
\* the select of the session runs in one step (with the checks that follow
\* it, which await nothing) and the commit in a later one, with the requests
\* of other clients in between.  Each request has its own AsyncSession
\* (core/database.py get_db), the select takes no lock and the row has no
\* version column, so the commit writes the values computed from what the
\* request read.
PhaseOps == {"start_session", "advance_phase"}
MaxRows == 3          \* PhaseTransition rows of a session

\* start_session lines 211-239 and advance_phase lines 262-308: the select,
\* the checks and the changes made to the loaded objects.
phase_select(r, op, session_id, user_id) ==
    /\ \A q \in requests : q.id # r
    /\ session_id \in DOMAIN phase_transitions
       => Len(phase_transitions[session_id]) + Cardinality(requests) < MaxRows
    /\ IF session_id \notin DOMAIN codesign_sessions
       THEN /\ Http(op, session_id, user_id, 404, "Session tidak ditemukan")
            /\ UNCHANGED <<wsVars, now, dbVars>>
       ELSE LET session == codesign_sessions[session_id]
            IN IF op = "start_session" /\ ~start_allowed(session)
               THEN /\ Http(op, session_id, user_id, 400,
                            "Session sudah dimulai")
                    /\ UNCHANGED <<wsVars, now, dbVars>>
               ELSE IF op = "advance_phase" /\ ~advance_allowed(session)
               THEN /\ Http(op, session_id, user_id, 400,
                            "Session sudah selesai")
                    /\ UNCHANGED <<wsVars, now, dbVars>>
               ELSE /\ requests' = requests \cup
                          {[id |-> r, op |-> op, session_id |-> session_id,
                            user_id |-> user_id,
                            from_phase |-> session.current_phase,
                            to_phase |-> IF op = "start_session"
                                         THEN "shared_framing"
                                         ELSE next_phase(session),
                            at |-> now]}
                    /\ Http(op, session_id, user_id, 0, "selected")
                    /\ UNCHANGED <<wsVars, now, codesign_sessions,
                                   db_participants, phase_transitions>>

\* start_session line 241 and advance_phase line 310: the commit flushes the
\* UPDATE of the attributes the request set and the INSERT of its row.
phase_commit(r) ==
    \E q \in requests :
       /\ q.id = r
       /\ requests' = requests \ {q}
       /\ codesign_sessions' =
             [codesign_sessions EXCEPT
                 ![q.session_id].current_phase = q.to_phase,
                 ![q.session_id].started_at =
                     IF q.op = "start_session" THEN Some(q.at) ELSE @,
                 ![q.session_id].completed_at =
                     IF q.op = "advance_phase" /\ q.to_phase = "complete"
                     THEN Some(q.at) ELSE @]
       /\ phase_transitions' =
             [phase_transitions EXCEPT
                 ![q.session_id] =
                     Append(@, IF q.op = "start_session"
                               THEN start_transition(q.user_id)
                               ELSE advance_transition(q.from_phase,
                                                       q.to_phase, q.user_id))]
       /\ Http(q.op, q.session_id, q.user_id, 200, q.to_phase)
       /\ UNCHANGED <<wsVars, now, db_participants>>

NextPhaseRace ==
    \/ \E s \in DbSessions : create_session(s, "u1")
    \/ \E r \in ReqIds, op \in PhaseOps, s \in DbSessions, u \in Users :
          phase_select(r, op, s, u)
    \/ \E r \in ReqIds : phase_commit(r)

SpecPhaseRace == Init /\ [][NextPhaseRace]_vars

\* C38 (as claimed): the PhaseTransition rows of a session, in time order,
\* form one chain: the first leaves setup, each row leaves the phase the row
\* before it entered, the last row enters the session's current_phase, and
\* no (from_phase, to_phase) pair is recorded twice.
C38_OneContiguousChain ==
    \A s \in DOMAIN codesign_sessions :
       LET rows == RowsOf(s)
       IN /\ rows # <<>>
             => /\ rows[1].from_phase = "setup"
                /\ rows[Len(rows)].to_phase = PhaseOf(s)
          /\ \A j \in 2..Len(rows) :
                rows[j].from_phase = rows[j - 1].to_phase
          /\ \A i, j \in 1..Len(rows) :
                (/\ rows[i].from_phase = rows[j].from_phase
                 /\ rows[i].to_phase = rows[j].to_phase) => i = j

\* --------------------------------------------------- typing and the clock
\* The members of one session sending typing events while time goes by.
NextTypingClock ==
    \/ \E s \in DbSessions, k \in Tokens : connect(s, k)
    \/ \E c \in ChanIds : on_disconnect(c)
    \/ \E c \in ChanIds, data \in TypingInbound : handle_message(c, data)
    \/ Tick

SpecTypingClock == Init /\ [][NextTypingClock]_vars

\* User u is in what get_typing_users(s) returns at time t, should the
\* typing set ty not be written until then.
TypingAt(ty, s, u, t) ==
    /\ s \in DOMAIN ty
    /\ t < ty[s].expire_at
    /\ u \in ty[s].members

\* C39 (as claimed): a typing_start of user u makes u listed by
\* get_typing_users until TYPING_TTL seconds later and no longer; and a
\* typing_start of another user of the session does not make u listed at
\* any time at which u would not have been listed without it.
C39_TypingExpiresOnOwnSchedule ==
    [][\A s \in Sessions, u \in Users :
         (last'.op = "typing_start" /\ last'.detail = None
          /\ last'.session_id = s)
         => IF last'.user_id = u
            THEN /\ TypingAt(typing', s, u, now')
                 /\ ~TypingAt(typing', s, u, now' + TYPING_TTL)
            ELSE \A t \in now'..(now' + TYPING_TTL) :
                    TypingAt(typing', s, u, t) => TypingAt(typing, s, u, t)]_vars

\* The websockets the registry ac holds under session s.
RegisteredUnder(ac, s) ==
    IF s \in DOMAIN ac THEN {ac[s][u] : u \in DOMAIN ac[s]} ELSE {}

\* C40: every send_text of a step that runs for session S, broadcast or
\* unicast, is made on a websocket that is registered under S and was opened
\* for S, and on none that is registered under another session, also when
\* the sending user is attached to both.
C40_SessionIsolation ==
    [][\A j \in 1..Len(wire') :
         LET S == last'.session_id
             ch == wire'[j].ch
         IN /\ ch \in RegisteredUnder(active_connections, S)
                      \cup RegisteredUnder(active_connections', S)
            /\ \A T \in Sessions \ {S} :
                  ch \notin RegisteredUnder(active_connections, T)
                            \cup RegisteredUnder(active_connections', T)
            /\ ch \in DOMAIN chan' => chan'[ch].session_id = S]_vars

\* u1 is attached to s1 and to s2; its ping in s2 was answered on the
\* websocket of s2, and nothing was sent on the one of s1.
C40_Witness ==
    /\ last.op = "ping"
    /\ last.session_id = "s2"
    /\ "s1" \in DOMAIN active_connections
    /\ "s2" \in DOMAIN active_connections
    /\ last.user_id \in DOMAIN active_connections["s1"]
    /\ last.user_id \in DOMAIN active_connections["s2"]
    /\ Len(wire) = 1
    /\ wire[1].ch = active_connections["s2"][last.user_id]
    /\ wire[1].ch # active_connections["s1"][last.user_id]

====
